---------------------------- MODULE Spec2Model ----------------------------
(***************************************************************************)
(* A model of the word-acceptance engine of gospel, a spell checker for Go *)
(* source: the word scanner (scanner.go), the heuristics (heuristics.go),  *)
(* the decomposition checker (checker.go), the misspelling dictionary      *)
(* (dictionary.go) and the unified diff parser (diff.go).                  *)
(*                                                                         *)
(* Text is a sequence of bytes (naturals below 256) and a rune is its code *)
(* point.  The texts of the model are ASCII, for which utf8.DecodeRune     *)
(* returns the byte itself with width 1; DecodeRune is nevertheless        *)
(* modelled for the empty input, which the scanner's lookahead meets.      *)
(***************************************************************************)
EXTENDS Integers, Sequences, FiniteSets, TLC

(***************************************************************************)
(* Bounds of the model.                                                    *)
(***************************************************************************)
\* The longest fragment text handed to the scanner.
MaxTextLen == 4
\* The most lines of a unified diff.
MaxDiffLines == 3
\* The most bytes of an enumerated word, and the most candidates of a
\* suggestion list.
MaxWordBytes == 2
MaxSuggestions == 2
\* The most line ranges of a path in a change filter.
MaxRanges == 2
\* The most misspellings (fragments with context) a run leaves to report.
MaxMisspellings == 2
MaxHexLen == 3
MaxEntropyLen == 3
MaxLiteralLen == 3
\* The most entries of an existing .words file.
MaxOldEntries == 2
\* The most fragments (comments, string literals, embedded files) of a run.
MaxFragments == 2

(***************************************************************************)
(* Bytes and byte strings.  A byte is written as its value: 92 is the      *)
(* backslash, 32 the space, 39 the apostrophe, 45 the dash, 95 the         *)
(* underscore, 48..57 the digits, 65..90 A..Z and 97..122 a..z.            *)
(***************************************************************************)
\* The Go slice s[lo:hi] and s[lo:] of a byte string (0-based, half open).
Slice(s, lo, hi) == SubSeq(s, lo + 1, hi)
SliceFrom(s, lo) == SubSeq(s, lo + 1, Len(s))

\* All byte strings over the alphabet a of length at most n.
StringsUpTo(a, n) == UNION {[1..k -> a] : k \in 0..n}

HasPrefix(s, p) == Len(s) >= Len(p) /\ SubSeq(s, 1, Len(p)) = p
HasSuffix(s, p) == Len(s) >= Len(p) /\ SubSeq(s, Len(s) - Len(p) + 1, Len(s)) = p
TrimPrefix(s, p) == IF HasPrefix(s, p) THEN SliceFrom(s, Len(p)) ELSE s
TrimSuffix(s, p) == IF HasSuffix(s, p) THEN Slice(s, 0, Len(s) - Len(p)) ELSE s

\* strings.IndexByte: the 0-based index of the first c in s, or -1.
IndexByte(s, c) ==
  IF \E i \in 1..Len(s) : s[i] = c
  THEN (CHOOSE i \in 1..Len(s) : s[i] = c /\ \A j \in 1..(i - 1) : s[j] # c) - 1
  ELSE -1

\* strings.SplitN and bytes.SplitN with a one-byte separator: at most n
\* fields when n > 0, all the fields when n < 0.
RECURSIVE SplitN(_, _, _)
SplitN(s, sep, n) ==
  LET i == IndexByte(s, sep)
  IN IF n = 1 \/ i < 0 THEN <<s>>
     ELSE <<Slice(s, 0, i)>> \o SplitN(SliceFrom(s, i + 1), sep, n - 1)

\* strconv.Atoi on a short decimal string: an optional sign and digits.
RECURSIVE digitsValue(_)
digitsValue(s) ==
  IF Len(s) = 0 THEN 0
  ELSE 10 * digitsValue(Slice(s, 0, Len(s) - 1)) + (s[Len(s)] - 48)

Atoi(s) ==
  LET signed == Len(s) > 0 /\ s[1] \in {43, 45}
      digits == IF signed THEN SliceFrom(s, 1) ELSE s
  IN IF Len(digits) = 0 \/ \E i \in 1..Len(digits) : digits[i] \notin 48..57
     THEN [ok |-> FALSE, val |-> 0]
     ELSE [ok |-> TRUE,
           val |-> IF signed /\ s[1] = 45 THEN 0 - digitsValue(digits)
                   ELSE digitsValue(digits)]

(***************************************************************************)
(* The unicode package on the runes below U+0100, and utf8.RuneError.      *)
(***************************************************************************)
RuneError == 65533

IsSpace(r) == r \in {9, 10, 11, 12, 13, 32, 133, 160}

IsPunct(r) ==
  r \in {33, 34, 35, 37, 38, 39, 40, 41, 42, 44, 45, 46, 47, 58, 59, 63, 64,
         91, 92, 93, 95, 123, 125, 161, 167, 171, 182, 183, 187, 191}

IsSymbol(r) ==
  r \in {36, 43, 60, 61, 62, 94, 96, 124, 126, 162, 163, 164, 165, 166, 168,
         169, 172, 174, 175, 176, 177, 180, 184, 215, 247, RuneError}

IsUpper(r) == r \in (65..90) \cup (192..214) \cup (216..222)

IsLetter(r) ==
  r \in (65..90) \cup (97..122) \cup {170, 181, 186} \cup (192..214)
        \cup (216..246) \cup (248..255)

IsDigit(r) == r \in 48..57

\* utf8.DecodeRune: the first rune of p and its width in bytes.
DecodeRune(p) ==
  IF Len(p) = 0 THEN [r |-> RuneError, width |-> 0]
  ELSE IF p[1] < 128 THEN [r |-> p[1], width |-> 1]
  ELSE IF p[1] \in 194..223 /\ Len(p) >= 2 /\ p[2] \in 128..191
       THEN [r |-> (p[1] - 192) * 64 + (p[2] - 128), width |-> 2]
  ELSE [r |-> RuneError, width |-> 1]

\* r | ('a' - 'A'): the rune with bit 5 set.
OrCaseBit(r) == IF (r \div 32) % 2 = 1 THEN r ELSE r + 32

(***************************************************************************)
(* heuristics.go: isHex.                                                   *)
(***************************************************************************)
isHex(s) ==
  \A i \in 1..Len(s) :
    LET b == OrCaseBit(s[i])
    IN ~((b < 48 \/ 57 < b) /\ (b < 97 \/ 102 < b))

(***************************************************************************)
(* scanner.go: the splitting rule.                                         *)
(***************************************************************************)
isApostrophe(last, curr, data) ==
  IF curr # 39 THEN FALSE
  ELSE IsLetter(last) /\ IsLetter(DecodeRune(data).r)

isExponentSign(last, curr, data) ==
  IF curr # 45 THEN FALSE
  ELSE OrCaseBit(last) = 101 /\ IsDigit(DecodeRune(data).r)

isWordSplitPunct(prev, curr, next) ==
  /\ curr # 95
  /\ curr # 92
  /\ IsPunct(curr)
  /\ ~isApostrophe(prev, curr, next)
  /\ ~isExponentSign(prev, curr, next)

\* The single-character escapes: a b f n r t v \ ' "
SingleEscapes == {97, 98, 102, 110, 114, 116, 118, 92, 39, 34}

NoSplit(w) == [width |-> w, ok |-> FALSE]
Split(w, ok) == [width |-> w, ok |-> ok]

\* The switch on next[0] of isSplitter.
isSplitterEscape(next, doubleQuoted) ==
  CASE next[1] \in SingleEscapes -> Split(1, ~doubleQuoted)
    [] next[1] = 120 ->
         IF Len(next) < 2 THEN NoSplit(0)
         ELSE IF ~isHex(Slice(next, 0, 2)) THEN NoSplit(1)
         ELSE Split(3, ~doubleQuoted)
    [] next[1] = 117 ->
         IF Len(next) < 4 THEN NoSplit(0)
         ELSE IF ~isHex(Slice(next, 0, 4)) THEN NoSplit(1)
         ELSE Split(5, ~doubleQuoted)
    [] next[1] = 85 ->
         IF Len(next) < 8 THEN NoSplit(0)
         ELSE IF ~isHex(Slice(next, 0, 8)) THEN NoSplit(1)
         ELSE Split(9, ~doubleQuoted)
    [] OTHER ->
         IF Len(next) < 3 THEN NoSplit(0)
         ELSE IF \E i \in 1..Len(next) : next[i] < 48 \/ 55 < next[i]
              THEN NoSplit(0)
         ELSE Split(3, ~doubleQuoted)

isSplitter(prev, curr, next, doubleQuoted) ==
  IF IsSpace(curr) \/ IsSymbol(curr) \/ isWordSplitPunct(prev, curr, next)
  THEN Split(0, TRUE)
  ELSE IF curr # 92 \/ Len(next) = 0 THEN NoSplit(0)
  ELSE LET d1 == DecodeRune(SliceFrom(next, 1))
       IN IF d1.r = RuneError THEN NoSplit(0)
          ELSE LET r2 == DecodeRune(SliceFrom(next, d1.width)).r
               IN IF r2 = RuneError THEN NoSplit(0)
                  ELSE IF IsSpace(r2) \/ IsPunct(r2) \/ IsSymbol(r2)
                       THEN Split(d1.width, TRUE)
                  ELSE isSplitterEscape(next, doubleQuoted)

(***************************************************************************)
(* scanner.go: words.ScanWords, the split function given to bufio.Scanner. *)
(* current is w.current on entry; the result holds the returned advance,   *)
(* the token (hasToken is FALSE for a nil token) and w.current on return.  *)
(***************************************************************************)
\* The first loop: skip the leading splitters.
RECURSIVE skipLeading(_, _, _, _)
skipLeading(data, doubleQuoted, start, prev) ==
  IF start >= Len(data) THEN [start |-> start, prev |-> prev]
  ELSE LET d == DecodeRune(SliceFrom(data, start))
           s == isSplitter(prev, d.r, SliceFrom(data, start + d.width),
                           doubleQuoted)
       IN IF ~s.ok THEN [start |-> start, prev |-> d.r]
          ELSE skipLeading(data, doubleQuoted, start + d.width + s.width, d.r)

\* The second loop: scan until a splitter, marking the end of the word.
RECURSIVE scanUntilSplit(_, _, _, _)
scanUntilSplit(data, doubleQuoted, i, prev) ==
  IF i >= Len(data) THEN [found |-> FALSE, i |-> i, width |-> 0]
  ELSE LET d == DecodeRune(SliceFrom(data, i))
           s == isSplitter(prev, d.r, SliceFrom(data, i + d.width),
                           doubleQuoted)
       IN IF s.ok THEN [found |-> TRUE, i |-> i, width |-> d.width + s.width]
          ELSE scanUntilSplit(data, doubleQuoted, i + d.width + s.width, d.r)

\* ScanWords with the splitter's width left out of the span's end.
ScanWordsEndBeforeSplitter(current, doubleQuoted, data, atEOF) ==
  LET lead  == skipLeading(data, doubleQuoted, 0, 0)
      start == lead.start
      pos   == current.end + start
      word  == scanUntilSplit(data, doubleQuoted, start, lead.prev)
  IN IF word.found
     THEN [advance  |-> word.i + word.width,
           hasToken |-> TRUE,
           token    |-> Slice(data, start, word.i),
           current  |-> [pos |-> pos, end |-> current.end + word.i]]
     ELSE IF atEOF /\ Len(data) > start
     THEN [advance  |-> Len(data),
           hasToken |-> TRUE,
           token    |-> SliceFrom(data, start),
           current  |-> [pos |-> pos, end |-> current.end + Len(data)]]
     ELSE [advance  |-> start,
           hasToken |-> FALSE,
           token    |-> << >>,
           current  |-> [pos |-> pos, end |-> pos]]

\* ScanWords returning the rest of the data at EOF even when it is empty.
ScanWordsEmptyAtEOF(current, doubleQuoted, data, atEOF) ==
  LET lead  == skipLeading(data, doubleQuoted, 0, 0)
      start == lead.start
      pos   == current.end + start
      word  == scanUntilSplit(data, doubleQuoted, start, lead.prev)
  IN IF word.found
     THEN [advance  |-> word.i + word.width,
           hasToken |-> TRUE,
           token    |-> Slice(data, start, word.i),
           current  |-> [pos |-> pos,
                         end |-> current.end + word.i + word.width]]
     ELSE IF atEOF /\ Len(data) >= start
     THEN [advance  |-> Len(data),
           hasToken |-> TRUE,
           token    |-> SliceFrom(data, start),
           current  |-> [pos |-> pos, end |-> current.end + Len(data)]]
     ELSE [advance  |-> start,
           hasToken |-> FALSE,
           token    |-> << >>,
           current  |-> [pos |-> pos, end |-> pos]]

ScanWords(current, doubleQuoted, data, atEOF) ==
  LET lead  == skipLeading(data, doubleQuoted, 0, 0)
      start == lead.start
      pos   == current.end + start
      word  == scanUntilSplit(data, doubleQuoted, start, lead.prev)
  IN IF word.found
     THEN [advance  |-> word.i + word.width,
           hasToken |-> TRUE,
           token    |-> Slice(data, start, word.i),
           current  |-> [pos |-> pos,
                         end |-> current.end + word.i + word.width]]
     ELSE IF atEOF /\ Len(data) > start
     THEN [advance  |-> Len(data),
           hasToken |-> TRUE,
           token    |-> SliceFrom(data, start),
           current  |-> [pos |-> pos, end |-> current.end + Len(data)]]
     ELSE [advance  |-> start,
           hasToken |-> FALSE,
           token    |-> << >>,
           current  |-> [pos |-> pos, end |-> pos]]

(***************************************************************************)
(* diff.go: additions, the parser of unified diff data.                    *)
(***************************************************************************)
fileAdditionPrefix == <<43, 43, 43, 32, 98, 47>>   \* "+++ b/"
hunkPrefix == <<64, 64, 32>>                       \* "@@ "
deletionSuffix == <<44, 48>>                       \* ",0"

NoRange == [start |-> 0, end |-> 0]
HunkOutcome(o, r) == [outcome |-> o, range |-> r]

\* The hunk case with the line count not decremented.
hunkLineKeepCount(line) ==
  LET f == SplitN(line, 32, 4)
  IN IF Len(f) < 3 THEN HunkOutcome("panic", NoRange)
     ELSE IF ~HasPrefix(f[3], <<43>>) THEN HunkOutcome("malformed", NoRange)
     ELSE IF HasSuffix(f[3], deletionSuffix) THEN HunkOutcome("skip", NoRange)
     ELSE LET hunk0 == SliceFrom(f[3], 1)
              idx   == IndexByte(hunk0, 44)
              count == IF idx >= 0 THEN Atoi(SliceFrom(hunk0, idx + 1))
                       ELSE [ok |-> TRUE, val |-> 0]
              lines == count.val
              hunk  == IF idx >= 0 THEN Slice(hunk0, 0, idx) ELSE hunk0
              line0 == Atoi(hunk)
          IN IF ~count.ok THEN HunkOutcome("badend", NoRange)
             ELSE IF ~line0.ok THEN HunkOutcome("badstart", NoRange)
             ELSE HunkOutcome("range", [start |-> line0.val,
                                        end |-> line0.val + lines])

\* The case of a line with the hunk prefix: the added-side token f[2] of the
\* line, and what the case does with it: the index f[2] panics when the line
\* has fewer than three fields, a token without '+' or with a number that
\* does not parse is an error, a token ending in ",0" is skipped, and any
\* other gives the range to append.
hunkLine(line) ==
  LET f == SplitN(line, 32, 4)
  IN IF Len(f) < 3 THEN HunkOutcome("panic", NoRange)
     ELSE IF ~HasPrefix(f[3], <<43>>) THEN HunkOutcome("malformed", NoRange)
     ELSE IF HasSuffix(f[3], deletionSuffix) THEN HunkOutcome("skip", NoRange)
     ELSE LET hunk0 == SliceFrom(f[3], 1)
              idx   == IndexByte(hunk0, 44)
              count == IF idx >= 0 THEN Atoi(SliceFrom(hunk0, idx + 1))
                       ELSE [ok |-> TRUE, val |-> 1]
              lines == count.val - 1
              hunk  == IF idx >= 0 THEN Slice(hunk0, 0, idx) ELSE hunk0
              line0 == Atoi(hunk)
          IN IF ~count.ok THEN HunkOutcome("badend", NoRange)
             ELSE IF ~line0.ok THEN HunkOutcome("badstart", NoRange)
             ELSE HunkOutcome("range", [start |-> line0.val,
                                        end |-> line0.val + lines])

\* additions[path] = append(additions[path], r) on a Go map.
AppendRange(adds, path, r) ==
  [q \in DOMAIN adds \cup {path} |->
     IF q = path
     THEN (IF path \in DOMAIN adds THEN Append(adds[path], r) ELSE <<r>>)
     ELSE adds[q]]

(***************************************************************************)
(* The unified diffs of the model, as git writes them: a sequence of       *)
(* entries, each rendered as one line.  An entry is a file header          *)
(* "+++ b/<path>", a hunk header "@@ -a[,b] +c[,d] @@[ section]" (d = -1   *)
(* stands for an omitted count), a line the parser ignores, or a           *)
(* malformed hunk header.                                                  *)
(***************************************************************************)
Itoa(n) == IF n < 10 THEN <<48 + n>> ELSE <<48 + (n \div 10), 48 + (n % 10)>>

DiffPaths == {<<102>>, <<103>>}            \* "f", "g"

Entry(k, p, c, d) == [kind |-> k, path |-> p, c |-> c, d |-> d]

FileEntries == {Entry("file", p, 0, 0) : p \in DiffPaths}
HunkEntries == {Entry("hunk", << >>, c, d) : c \in {1, 10}, d \in {-1, 0, 2, 10}}
\* "--- a/f" and "+++ /dev/null"
OtherEntries == {Entry("other", <<45, 45, 45, 32, 97, 47, 102>>, 0, 0),
                 Entry("other", <<43, 43, 43, 32, 47, 100, 101, 118, 47,
                                  110, 117, 108, 108>>, 0, 0)}
\* "@@ -1", "@@ -1 1,2 @@", "@@ -1 +x @@" and "@@ -1 +1,x @@"
BadEntries == {Entry("bad", <<64, 64, 32, 45, 49>>, 0, 0),
               Entry("bad", <<64, 64, 32, 45, 49, 32, 49, 44, 50, 32, 64, 64>>, 0, 0),
               Entry("bad", <<64, 64, 32, 45, 49, 32, 43, 120, 32, 64, 64>>, 0, 0),
               Entry("bad", <<64, 64, 32, 45, 49, 32, 43, 49, 44, 120, 32, 64, 64>>, 0, 0)}

DiffEntries == FileEntries \cup HunkEntries \cup OtherEntries \cup BadEntries

\* The line of an entry.  A hunk at line 1 is written "@@ -1 +c[,d] @@" and
\* one at line 10 "@@ -3,0 +c[,d] @@ fn".
RenderEntry(e) ==
  CASE e.kind = "file" -> fileAdditionPrefix \o e.path
    [] e.kind = "hunk" ->
         hunkPrefix
         \o (IF e.c = 1 THEN <<45, 49>> ELSE <<45, 51, 44, 48>>)
         \o <<32, 43>> \o Itoa(e.c)
         \o (IF e.d < 0 THEN << >> ELSE <<44>> \o Itoa(e.d))
         \o <<32, 64, 64>>
         \o (IF e.c = 1 THEN << >> ELSE <<32, 102, 110>>)
    [] OTHER -> e.path

(***************************************************************************)
(* heuristics.go: the heuristics.  The words of the model are ASCII, so a  *)
(* rune of a word is a byte of it.                                         *)
(***************************************************************************)
RECURSIVE RuneCountInString(_)
RuneCountInString(s) ==
  IF Len(s) = 0 THEN 0
  ELSE 1 + RuneCountInString(SliceFrom(s, DecodeRune(s).width))

wordLen(max, word) == max > 0 /\ Len(word) > max

allUpper(word) ==
  LET w == TrimSuffix(word, <<115>>)
  IN \A i \in 1..Len(w) : IsUpper(w[i]) \/ IsDigit(w[i]) \/ w[i] = 95

isSingle(word) == RuneCountInString(word) = 1

isNakedHex(minLen, word) ==
  minLen # 0 /\ Len(word) >= minLen /\ isHex(word)

\* A decimal literal of Go without a leading 0: digits with single
\* underscores between digits.  Over the alphabet of the model
\* (no '0', '.', 'x', 'e', 'p', 'i', 'n' or 'f') these are the words
\* go/scanner scans whole as one INT, FLOAT or IMAG without an error, and
\* the words strconv.ParseFloat parses.
decimalLiteral(s) ==
  /\ Len(s) > 0
  /\ \A i \in 1..Len(s) : IsDigit(s[i]) \/ s[i] = 95
  /\ s[1] # 95 /\ s[Len(s)] # 95
  /\ \A i \in 1..(Len(s) - 1) : ~(s[i] = 95 /\ s[i + 1] = 95)

isNumber(word) == decimalLiteral(word)

isHexRune(word) ==
  IF Len(word) < 4 \/ word[1] # 92 THEN FALSE
  ELSE CASE word[2] = 120 -> Len(word) = 4 /\ isHex(Slice(word, 2, 4))
         [] word[2] = 117 -> Len(word) = 6 /\ isHex(Slice(word, 2, 6))
         [] word[2] = 85  -> Len(word) = 10 /\ isHex(Slice(word, 2, 10))
         [] OTHER -> IF Len(word) = 4 THEN FALSE
                     ELSE \A i \in 2..Len(word) : word[i] \in 48..55

ParseFloatOK(s) == decimalLiteral(s)

knownUnits ==
  { <<107>>, <<77>>, <<120>>,
    <<75, 98>>, <<107, 98>>, <<77, 98>>, <<71, 98>>, <<84, 98>>,
    <<75, 66>>, <<107, 66>>, <<77, 66>>, <<71, 66>>, <<84, 66>>,
    <<75, 105, 98>>, <<107, 105, 98>>, <<77, 105, 98>>, <<71, 105, 98>>,
    <<84, 105, 98>>,
    <<75, 105, 66>>, <<107, 105, 66>>, <<77, 105, 66>>, <<71, 105, 66>>,
    <<84, 105, 66>>,
    <<195, 133>>, <<110, 109>>, <<194, 181, 109>>, <<109, 109>>,
    <<99, 109>>, <<109>>, <<107, 109>>,
    <<110, 115>>, <<194, 181, 115>>, <<117, 115>>, <<109, 115>>, <<115>>,
    <<109, 105, 110>>, <<104, 114>>,
    <<72, 122>> }

isUnit(word, partial) ==
  IF partial THEN FALSE
  ELSE \E u \in knownUnits :
         HasSuffix(word, u) /\ ParseFloatOK(TrimSuffix(word, u))

\* The fields of config that choose and set the heuristics, and CamelSplit.
Config(maxWordLen, minNakedHex, upper, single, numbers, camelSplit) ==
  [MaxWordLen |-> maxWordLen, MinNakedHex |-> minNakedHex,
   IgnoreUpper |-> upper, IgnoreSingle |-> single, IgnoreNumbers |-> numbers,
   CamelSplit |-> camelSplit]

\* The loop of isCorrect over c.heuristics as newChecker builds it (no
\* patterns are configured).
heuristicsAccept(cfg, word, partial) ==
  \/ wordLen(cfg.MaxWordLen, word)
  \/ isNakedHex(cfg.MinNakedHex, word)
  \/ isHexRune(word)
  \/ isUnit(word, partial)
  \/ cfg.IgnoreUpper /\ allUpper(word)
  \/ cfg.IgnoreSingle /\ isSingle(word)
  \/ cfg.IgnoreNumbers /\ isNumber(word)

(***************************************************************************)
(* checker.go: isCorrect.  The dictionary is an oracle: spell[w] is the    *)
(* answer of dictionary.IsCorrect(w), suggestions the list that            *)
(* dictionary.Suggest(word) returns, and fragments the result of           *)
(* c.camel.Split(word), that of a library outside this repository.  The    *)
(* result holds the returned value, the words IsCorrect was asked about    *)
(* (lookups), the words given to noteMisspelling (noted), whether Suggest  *)
(* was called (suggested) and whether caseFoldMatch held (fold).           *)
(***************************************************************************)
ToLower(b) == IF b \in 65..90 THEN b + 32 ELSE b

\* strings.EqualFold on ASCII strings.
EqualFold(s, u) ==
  Len(s) = Len(u) /\ \A i \in 1..Len(s) : ToLower(s[i]) = ToLower(u[i])

caseFoldMatch(word, suggestions) ==
  \E i \in 1..Len(suggestions) : EqualFold(suggestions[i], word)

\* strings.Split(s, sep) for a one-byte separator.
RECURSIVE stringsSplit(_, _)
stringsSplit(s, sep) ==
  LET i == IndexByte(s, sep)
  IN IF i < 0 THEN <<s>>
     ELSE <<Slice(s, 0, i)>> \o stringsSplit(SliceFrom(s, i + 1), sep)

RECURSIVE stripUnderscores(_)
stripUnderscores(s) ==
  IF Len(s) > 0 /\ s[1] = 95 THEN stripUnderscores(SliceFrom(s, 1))
  ELSE IF Len(s) > 0 /\ s[Len(s)] = 95
       THEN stripUnderscores(Slice(s, 0, Len(s) - 1))
       ELSE s

\* The removal of the common suffixes 's, 'd, 'ed and 'th in check.
trimCommonSuffix(word) ==
  CASE HasSuffix(word, <<39, 115>>) -> TrimSuffix(word, <<39, 115>>)
    [] HasSuffix(word, <<39, 100>>) -> TrimSuffix(word, <<39, 100>>)
    [] HasSuffix(word, <<39, 101, 100>>) -> TrimSuffix(word, <<39, 101, 100>>)
    [] HasSuffix(word, <<39, 116, 104>>) -> TrimSuffix(word, <<39, 116, 104>>)
    [] OTHER -> word

Verdict(ok, lookups, noted, suggested, fold) ==
  [ok |-> ok, lookups |-> lookups, noted |-> noted, suggested |-> suggested,
   fold |-> fold]

\* isCorrect(frag, true): the heuristics, the dictionary, and then the
\* rejection that partial forces before Suggest is asked.
isCorrectPartial(cfg, frag, spell) ==
  IF heuristicsAccept(cfg, frag, TRUE)
  THEN Verdict(TRUE, << >>, << >>, FALSE, FALSE)
  ELSE IF spell[frag] THEN Verdict(TRUE, <<frag>>, << >>, FALSE, FALSE)
  ELSE Verdict(FALSE, <<frag>>, <<frag>>, FALSE, FALSE)

\* A loop over the fragments that goes on after a rejected one.
RECURSIVE checkFragmentsAll(_, _, _)
checkFragmentsAll(cfg, frags, spell) ==
  IF Len(frags) = 0 THEN Verdict(TRUE, << >>, << >>, FALSE, FALSE)
  ELSE LET first == isCorrectPartial(cfg, Head(frags), spell)
           rest == checkFragmentsAll(cfg, Tail(frags), spell)
       IN Verdict(first.ok /\ rest.ok, first.lookups \o rest.lookups,
                  first.noted \o rest.noted, FALSE, FALSE)

\* The loop over the fragments, which returns at the first one rejected.
RECURSIVE checkFragments(_, _, _)
checkFragments(cfg, frags, spell) ==
  IF Len(frags) = 0 THEN Verdict(TRUE, << >>, << >>, FALSE, FALSE)
  ELSE LET first == isCorrectPartial(cfg, Head(frags), spell)
       IN IF ~first.ok THEN first
          ELSE LET rest == checkFragments(cfg, Tail(frags), spell)
               IN Verdict(rest.ok, first.lookups \o rest.lookups,
                          rest.noted, FALSE, FALSE)

splitWord(cfg, word, fragments) ==
  IF cfg.CamelSplit THEN fragments ELSE stringsSplit(word, 95)

\* isCorrect without the decomposition: a word the dictionary rejects is
\* rejected.
isCorrectWholeOnly(cfg, word, spell, suggestions, fragments) ==
  IF heuristicsAccept(cfg, word, FALSE)
  THEN Verdict(TRUE, << >>, << >>, FALSE, FALSE)
  ELSE IF spell[word] THEN Verdict(TRUE, <<word>>, << >>, FALSE, FALSE)
  ELSE Verdict(FALSE, <<word>>, <<word>>, TRUE,
               caseFoldMatch(word, suggestions))

\* isCorrect with the fragments tried before the case-fold match.
isCorrectSplitBeforeFold(cfg, word, spell, suggestions, fragments) ==
  IF heuristicsAccept(cfg, word, FALSE)
  THEN Verdict(TRUE, << >>, << >>, FALSE, FALSE)
  ELSE IF spell[word] THEN Verdict(TRUE, <<word>>, << >>, FALSE, FALSE)
  ELSE LET r == checkFragments(cfg, splitWord(cfg, word, fragments), spell)
       IN IF ~r.ok
          THEN Verdict(FALSE, <<word>> \o r.lookups, r.noted, FALSE, FALSE)
          ELSE IF caseFoldMatch(word, suggestions)
          THEN Verdict(FALSE, <<word>> \o r.lookups, <<word>>, TRUE, TRUE)
          ELSE Verdict(TRUE, <<word>> \o r.lookups, << >>, TRUE, FALSE)

\* isCorrect with the case-fold match tried before the dictionary.
isCorrectFoldBeforeDictionary(cfg, word, spell, suggestions, fragments) ==
  IF heuristicsAccept(cfg, word, FALSE)
  THEN Verdict(TRUE, << >>, << >>, FALSE, FALSE)
  ELSE IF caseFoldMatch(word, suggestions)
  THEN Verdict(FALSE, << >>, <<word>>, TRUE, TRUE)
  ELSE IF spell[word] THEN Verdict(TRUE, <<word>>, << >>, TRUE, FALSE)
  ELSE LET r == checkFragments(cfg, splitWord(cfg, word, fragments), spell)
       IN Verdict(r.ok, <<word>> \o r.lookups, r.noted, TRUE, FALSE)

\* isCorrect(word, false).
isCorrect(cfg, word, spell, suggestions, fragments) ==
  IF heuristicsAccept(cfg, word, FALSE)
  THEN Verdict(TRUE, << >>, << >>, FALSE, FALSE)
  ELSE IF spell[word] THEN Verdict(TRUE, <<word>>, << >>, FALSE, FALSE)
  ELSE IF caseFoldMatch(word, suggestions)
  THEN Verdict(FALSE, <<word>>, <<word>>, TRUE, TRUE)
  ELSE LET r == checkFragments(cfg, splitWord(cfg, word, fragments), spell)
       IN Verdict(r.ok, <<word>> \o r.lookups, r.noted, TRUE, FALSE)

(***************************************************************************)
(* dictionary.go: the misspellings file and the loading of dictionaries.   *)
(***************************************************************************)
\* a < b in the byte order of sort.Strings.
RECURSIVE StringLess(_, _)
StringLess(a, b) ==
  IF Len(b) = 0 THEN FALSE
  ELSE IF Len(a) = 0 THEN TRUE
  ELSE IF a[1] # b[1] THEN a[1] < b[1]
  ELSE StringLess(Tail(a), Tail(b))

RECURSIVE SortStrings(_)
SortStrings(S) ==
  IF S = {} THEN << >>
  ELSE LET least == CHOOSE x \in S : \A y \in S \ {x} : StringLess(x, y)
       IN <<least>> \o SortStrings(S \ {least})

\* The lines writeMisspellings writes: the count, then the sorted words.
MisspellingsFile(misspelled) ==
  <<Itoa(Cardinality(misspelled))>> \o SortStrings(misspelled)

\* The words of a dictionary file: its lines after the count.
DictionaryWords(file) == {file[i] : i \in 2..Len(file)}

\* AddDict with the answers of the words not in the file forgotten.
AddDictReplacing(spell, words) ==
  [x \in DOMAIN spell \cup words |-> x \in words]

\* writeMisspellings, given the existing .words files that could be opened:
\* under update their lines after the first are carried over.
writeMisspellings(misspelled, update, olds) ==
  MisspellingsFile(IF update
                   THEN misspelled \cup UNION {DictionaryWords(f) : f \in olds}
                   ELSE misspelled)

\* The oracle after AddDict of a file holding words: it accepts them, and
\* answers for any other word as before.
AddDict(spell, words) ==
  [x \in DOMAIN spell \cup words |-> IF x \in words THEN TRUE ELSE spell[x]]

(***************************************************************************)
(* diff.go: changeFilter.  A filter is nil (isNil) or a Go map from paths  *)
(* to lists of line ranges; a position is given by the wd-relative name of *)
(* its file and its line.                                                  *)
(***************************************************************************)
NilFilter == [isNil |-> TRUE, ranges |-> [q \in {} |-> << >>]]
MapFilter(m) == [isNil |-> FALSE, ranges |-> m]

\* isInChange with the end of a range excluded.
isInChangeOpenEnd(f, file, line) ==
  IF f.isNil THEN TRUE
  ELSE IF file \notin DOMAIN f.ranges THEN FALSE
  ELSE \E i \in 1..Len(f.ranges[file]) :
         f.ranges[file][i].start <= line /\ line < f.ranges[file][i].end

isInChange(f, file, line) ==
  IF f.isNil THEN TRUE
  ELSE IF file \notin DOMAIN f.ranges THEN FALSE
  ELSE \E i \in 1..Len(f.ranges[file]) :
         f.ranges[file][i].start <= line /\ line <= f.ranges[file][i].end

\* fileIsInChange that takes a nil filter to hold no file.
fileIsInChangeNilEmpty(f, file) ==
  IF f.isNil THEN FALSE ELSE file \in DOMAIN f.ranges

fileIsInChange(f, file) ==
  IF f.isNil THEN TRUE ELSE file \in DOMAIN f.ranges

(***************************************************************************)
(* check.go: the entropy filter.  entropy is a sum of floating-point       *)
(* terms; the comparisons of unexpectedEntropy are made here in integers:  *)
(* with n = len(text), c_b the count of the counted byte b and S the sum   *)
(* of the counts, e < log2(m) exactly when n^S < m^n * PROD c_b^c_b.  The  *)
(* two agree wherever e and log2(m) differ; they are equal in the texts    *)
(* of this model only when every count and m are powers of two, where the  *)
(* floating-point values are exact.                                        *)
(***************************************************************************)
\* unicode.IsPrint of a byte taken as a rune (Latin-1).
IsPrint(b) == b \in 32..126 \/ (b \in 161..255 /\ b # 173)

RECURSIVE Pow(_, _)
Pow(a, b) == IF b = 0 THEN 1 ELSE a * Pow(a, b - 1)

\* counts[b] of entropy, for the bytes it counts.
byteCount(text, b) == Cardinality({i \in 1..Len(text) : text[i] = b})
countedBytes(text, print) ==
  {text[i] : i \in {j \in 1..Len(text) : ~print \/ IsPrint(text[j])}}

\* The counts of entropy that are not zero, by byte.
entropyCounts(text, print) ==
  [b \in countedBytes(text, print) |-> byteCount(text, b)]

RECURSIVE countSum(_, _)
countSum(text, bs) ==
  IF bs = {} THEN 0
  ELSE LET b == CHOOSE x \in bs : TRUE
       IN byteCount(text, b) + countSum(text, bs \ {b})

RECURSIVE countPowers(_, _)
countPowers(text, bs) ==
  IF bs = {} THEN 1
  ELSE LET b == CHOOSE x \in bs : TRUE
       IN Pow(byteCount(text, b), byteCount(text, b))
            * countPowers(text, bs \ {b})

\* expectedEntropy(n, s) is log2 of this number.
expectedAlphabet(n, s) ==
  LET m == IF n > s THEN s ELSE n
  IN IF m < 2 THEN 1 ELSE m

\* entropy(text, print) < expectedEntropy(len(text), s)
entropyBelow(text, print, s) ==
  LET bs == countedBytes(text, print)
  IN Pow(Len(text), countSum(text, bs))
       < Pow(expectedAlphabet(Len(text), s), Len(text)) * countPowers(text, bs)

\* expectedEntropy(len(text), s) < entropy(text, print)
entropyAbove(text, print, s) ==
  LET bs == countedBytes(text, print)
  IN Pow(expectedAlphabet(Len(text), s), Len(text)) * countPowers(text, bs)
       < Pow(Len(text), countSum(text, bs))

unexpectedEntropy(filter, text, print) ==
  IF ~filter.Filter \/ Len(text) < filter.MinLenFiltered THEN FALSE
  ELSE \/ entropyBelow(text, print, filter.Low)
       \/ entropyAbove(text, print, filter.High)

\* strconv.Unquote on the body of a double-quoted literal whose escapes are
\* \n, \\ and \": the escapes resolved.
RECURSIVE unquoteBody(_)
unquoteBody(s) ==
  IF Len(s) = 0 THEN << >>
  ELSE IF s[1] = 92 /\ Len(s) >= 2
  THEN <<IF s[2] = 110 THEN 10 ELSE s[2]>> \o unquoteBody(SliceFrom(s, 2))
  ELSE <<s[1]>> \o unquoteBody(Tail(s))

\* The text Visit measures: a double-quoted literal unquoted by
\* strconv.Unquote, a raw literal as written.
literalText(value) ==
  IF value[1] = 34 THEN unquoteBody(Slice(value, 1, Len(value) - 1))
  ELSE value

\* Visit calling check on the unquoted text.
visitCheckedUnquoted(value) == literalText(value)

\* The text Visit calls check on: n.Value.
visitChecked(value) == value

\* w := words{}
NewWords == [current |-> [pos |-> 0, end |-> 0], doubleQuoted |-> FALSE]

\* strings.Contains that looks only at the start of s.
ContainsAtStart(s, sub) == HasPrefix(s, sub)

\* strings.Contains
Contains(s, sub) ==
  \E i \in 0..(Len(s) - Len(sub)) : Slice(s, i, i + Len(sub)) = sub

\* The tokens bufio.Scanner gets from words.ScanWords over a text that the
\* reader gives in one piece: the split function is called on what is left
\* of the text, and again at EOF when it asks for more.
RECURSIVE scanText(_, _, _)
scanText(current, data, atEOF) ==
  LET ret == ScanWords(current, FALSE, data, atEOF)
      rest == IF ret.advance > Len(data) THEN << >>
              ELSE SliceFrom(data, ret.advance)
  IN IF ret.hasToken
     THEN <<[token |-> ret.token, span |-> ret.current]>>
            \o scanText(ret.current, rest, atEOF)
     ELSE IF ~atEOF THEN scanText(ret.current, rest, TRUE)
     ELSE << >>

(***************************************************************************)
(* report.go: the report.  A misspelling is a record of its file, the      *)
(* offset and line of its start, the line of its end, its text, where it   *)
(* is and its misspelled words; a misspelled word is a record of the word, *)
(* its span, its note and whether suggestions apply to it.                 *)
(***************************************************************************)
\* Suggestion behaviour.
never == 0
once == 1
each == 2
always == 3

\* adjacent with the lines required to touch or overlap.
adjacentSameLine(m, prev) ==
  m.file = prev.file /\ m.line - prev.endLine <= 0

adjacent(m, prev) ==
  m.file = prev.file /\ m.line - prev.endLine <= 1

\* The less function given to sort.Slice.
misspellingLess(mi, mj) ==
  IF StringLess(mi.file, mj.file) THEN TRUE
  ELSE IF StringLess(mj.file, mi.file) THEN FALSE
  ELSE mi.offset < mj.offset

\* sort.Slice(c.misspellings, less), for misspellings no two of which are
\* equal under less: sort.Slice is not stable.
RECURSIVE sortSlice(_)
sortSlice(ms) ==
  IF Len(ms) = 0 THEN << >>
  ELSE LET i == CHOOSE k \in 1..Len(ms) :
                  \A j \in 1..Len(ms) : ~misspellingLess(ms[j], ms[k])
       IN <<ms[i]>>
            \o sortSlice(SubSeq(ms, 1, i - 1) \o SubSeq(ms, i + 1, Len(ms)))

\* The loop of report that makes the chunks.
RECURSIVE chunkFrom(_, _, _, _)
chunkFrom(ms, i, chunks, current) ==
  IF i > Len(ms)
  THEN IF current = << >> THEN chunks ELSE Append(chunks, current)
  ELSE IF i # 1 /\ ~adjacent(ms[i], ms[i - 1])
  THEN chunkFrom(ms, i + 1, Append(chunks, current), <<ms[i]>>)
  ELSE chunkFrom(ms, i + 1, chunks, Append(current, ms[i]))

\* The misspelled words in the order in which report comes to them, each
\* with the number of its chunk and its misspelling.
RECURSIVE wordsOf(_, _, _)
wordsOf(m, k, i) ==
  IF i > Len(m.words) THEN << >>
  ELSE <<[chunk |-> k, m |-> m, w |-> m.words[i]]>> \o wordsOf(m, k, i + 1)

RECURSIVE occurrencesOf(_, _, _)
occurrencesOf(chunks, k, i) ==
  IF k > Len(chunks) THEN << >>
  ELSE IF i > Len(chunks[k]) THEN occurrencesOf(chunks, k + 1, 1)
  ELSE wordsOf(chunks[k][i], k, 1) \o occurrencesOf(chunks, k, i + 1)

\* The condition under which report goes on to suggestions, with each
\* taken for once.
wantsSuggestionsEachAsOnce(policy, w, cached, local) ==
  /\ w.suggest
  /\ \/ policy = always
     \/ policy \in {once, each} /\ ~cached

\* The condition under which report goes on to suggestions: cached says
\* that c.suggested[w.word] is not nil, local that suggested[w.word] is true.
wantsSuggestions(policy, w, cached, local) ==
  /\ w.suggest
  /\ \/ policy = always
     \/ policy = each /\ ~local
     \/ policy = once /\ ~cached

\* The printing of one misspelled word: st holds c.suggested (cache), the
\* chunk being printed, its suggested map (local) and the lines so far.
printWord(policy, oracle, st, occ) ==
  LET w == occ.w
      local == IF occ.chunk = st.chunk THEN st.local ELSE {}
      cached == w.word \in DOMAIN st.cache
      wants == wantsSuggestions(policy, w, cached, w.word \in local)
      suggestions == IF ~wants THEN << >>
                     ELSE IF cached THEN st.cache[w.word]
                     ELSE oracle[w.word]
      decorated == wants /\ Len(suggestions) # 0
  IN [cache |-> IF wants /\ ~cached
                THEN (w.word :> (IF policy \in {each, always} THEN suggestions
                                 ELSE << >>)) @@ st.cache
                ELSE st.cache,
      chunk |-> occ.chunk,
      local |-> IF decorated /\ policy = each THEN local \cup {w.word}
                ELSE local,
      lines |-> Append(st.lines,
                       [chunk |-> occ.chunk, file |-> occ.m.file,
                        offset |-> occ.m.offset, word |-> w.word,
                        note |-> w.note, where |-> occ.m.where,
                        decorated |-> decorated])]

RECURSIVE printWords(_, _, _, _, _)
printWords(policy, oracle, st, occs, i) ==
  IF i > Len(occs) THEN st
  ELSE printWords(policy, oracle, printWord(policy, oracle, st, occs[i]),
                  occs, i + 1)

\* shownWord with the whole span decorated.
shownWordWholeSpan(txt, w) ==
  [highlighted |-> Slice(txt, w.span.pos, w.span.end),
   trailing    |-> << >>]

\* What c.Show prints for a misspelled word of a text: the word's length
\* of the text from the start of its span with the warn decoration, and
\* what is left of the span without.
shownWord(txt, w) ==
  [highlighted |-> Slice(txt, w.span.pos, w.span.pos + Len(w.word)),
   trailing    |-> Slice(txt, w.span.pos + Len(w.word), w.span.end)]

(***************************************************************************)
(* The state.                                                              *)
(*                                                                         *)
(* Scanning one fragment (checker.check's bufio.Scanner over the text):    *)
(*   text          the fragment text                                       *)
(*   doubleQuoted  words.doubleQuoted                                      *)
(*   bufStart      bytes of text the Scanner has consumed (its s.start)    *)
(*   bufEnd        bytes of text the Scanner has read (its s.end)          *)
(*   atEOF         the reader has reported io.EOF (s.err # nil)            *)
(*   needData      the last split call asked for more data                 *)
(*   current       words.current, the span of the last word                *)
(*   tokens        the words sc.Scan has delivered, with their spans       *)
(*   lastCall      the arguments and results of the last ScanWords call    *)
(*   scanState     "scanning", "done" (sc.Scan returned false) or "error"  *)
(*                                                                         *)
(* Parsing one unified diff (additions):                                   *)
(*   diffEntries   the entries the diff was written from                   *)
(*   diffLines     the lines of the diff                                   *)
(*   diffPos       the number of lines the line scanner has delivered      *)
(*   diffPath      the local variable path                                 *)
(*   diffAdditions the map additions, from paths to lists of line ranges   *)
(*   diffState     "idle", "parsing", "done" (additions, nil returned),    *)
(*                 "error" (nil, err returned) or "panic"                  *)
(*                                                                         *)
(* Checking one word over one or two runs of the program:                  *)
(*   config        the configuration of the checker                        *)
(*   wordsFlag     config.words is set (a misspellings file is asked for)  *)
(*   spell         the answers dictionary.IsCorrect has given, by word     *)
(*   suggest       the lists dictionary.Suggest has returned, by word      *)
(*   camel         the results c.camel.Split has returned, by word         *)
(*   token         the word the scanner delivers to check                  *)
(*   run           0 (no run), 1 or 2                                      *)
(*   phase         "idle", "check" (the word is to be checked), "report"   *)
(*                 (the checks are over) or "end" (gospel has returned)    *)
(*   misspellings  dictionary.misspellings                                 *)
(*   misspelled    the keys of dictionary.misspelled                       *)
(*   records       the misspelled records check has appended in this run   *)
(*   lastCheck     the word given to isCorrect by check, and the result    *)
(*   firstCheck    lastCheck at the end of the first run                   *)
(*   wordsFile     the lines of the misspellings file                      *)
(*   rerun         how the dictionary of the second run was made: "none",  *)
(*                 "words" (the misspellings file was loaded) or           *)
(*                 "additions" (entries were added)                        *)
(*                                                                         *)
(* Asking a change filter (changeFilter.isInChange and fileIsInChange):    *)
(*   changeFilter  c.changeFilter: nil, or a map from paths to ranges      *)
(*   changeQuery   the last question asked of it, and the answer           *)
(*                                                                         *)
(* A run of gospel() from loadConfig to its return:                        *)
(*   gPc       where the run is: "idle", "loadConfig", "flags", "load",    *)
(*             "dictionary", "checker", "files", "embedded", "exit"        *)
(*   gStatus   the status returned (at "exit")                             *)
(*   gStderr   which message was written to stderr, "" for none            *)
(*   gStdout   whether anything was written to stdout                      *)
(*   gEvents   whether loadConfig looked the module up with packages.Load, *)
(*             whether the packages were loaded, whether git diff was run  *)
(*   gConfig   the config after flag.Parse                                 *)
(*   gOracle   the dictionary: the words it accepts, and whether its       *)
(*             suggestions hold the word with the case swapped             *)
(*   gFilter   c.changeFilter                                              *)
(*   gChecked  how many fragments the loops have come to                   *)
(*   gCounter  d.misspellings                                              *)
(*   gRecords  how many misspelled records c.misspellings holds            *)
(*   gLast     the last fragment the loops came to, and what check did     *)
(*                                                                         *)
(* dictionary.writeMisspellings at the end of a run:                       *)
(*   wWords    whether -misspellings names a file (d.words # "")           *)
(*   wUpdate   d.update                                                    *)
(*   wNoted    the words noted during the run (d.misspelled)               *)
(*   wRoots    for each module root, its .words file: absent, unreadable,  *)
(*             or the lines bufio.Scanner reads from it                    *)
(*   wOut      the lines of the file written                               *)
(*   wState    "idle", "noted", "written", "unwritten" or "error"          *)
(*                                                                         *)
(* checker.report at the end of a run:                                     *)
(*   rPolicy        c.MakeSuggestions                                      *)
(*   rSuggest       the dictionary's suggestion list for each word         *)
(*   rMisspellings  c.misspellings as the run left it                      *)
(*   rSorted        c.misspellings after sort.Slice                        *)
(*   rChunks        chunks                                                 *)
(*   rLines         the lines printed, one for each misspelled word, with  *)
(*                  whether suggestions were printed on it                 *)
(*   rShown         for each misspelled word, the text printed with the    *)
(*                  warn decoration and the rest of its span               *)
(*   rState         "idle", "checked" or "reported"                        *)
(***************************************************************************)
VARIABLES text, doubleQuoted, bufStart, bufEnd, atEOF, needData, current,
          tokens, lastCall, scanState,
          diffEntries, diffLines, diffPos, diffPath, diffAdditions, diffState,
          config, wordsFlag, spell, suggest, camel, token, run, phase,
          misspellings, misspelled, records, lastCheck, firstCheck, wordsFile,
          rerun,
          changeFilter, changeQuery,
          gPc, gStatus, gStderr, gStdout, gEvents, gConfig, gOracle, gFilter, gChecked, gCounter, gRecords, gLast,
          wWords, wUpdate, wNoted, wRoots, wOut, wState,
          rPolicy, rSuggest, rMisspellings, rSorted, rChunks, rLines, rShown, rState,
          fnInput, fnCall

scanVars == <<text, doubleQuoted, bufStart, bufEnd, atEOF, needData, current,
              tokens, lastCall, scanState>>

diffVars == <<diffEntries, diffLines, diffPos, diffPath, diffAdditions,
              diffState>>

checkVars == <<config, wordsFlag, spell, suggest, camel, token, run, phase,
               misspellings, misspelled, records, lastCheck, firstCheck,
               wordsFile, rerun>>

changeVars == <<changeFilter, changeQuery>>
reportVars == <<rPolicy, rSuggest, rMisspellings, rSorted, rChunks, rLines,
                rShown, rState>>
wordsVars == <<wWords, wUpdate, wNoted, wRoots, wOut, wState>>
gospelVars == <<gPc, gStatus, gStderr, gStdout, gEvents, gConfig, gOracle,
                gFilter, gChecked, gCounter, gRecords, gLast>>

funcVars == <<fnInput, fnCall>>

vars == <<scanVars, diffVars, checkVars, changeVars, gospelVars, wordsVars,
          reportVars, funcVars>>

\* The empty Go map.
EmptyMap == [q \in {} |-> << >>]

\* No diff is being parsed.
DiffIdle ==
  /\ diffEntries = << >>
  /\ diffLines = << >>
  /\ diffPos = 0
  /\ diffPath = << >>
  /\ diffAdditions = EmptyMap
  /\ diffState = "idle"

\* isCorrect has not been called.
NoWordCall ==
  [word |-> << >>, verdict |-> Verdict(TRUE, << >>, << >>, FALSE, FALSE)]

\* No word is being checked.
CheckIdle ==
  /\ config = Config(0, 0, FALSE, FALSE, FALSE, FALSE)
  /\ wordsFlag = FALSE
  /\ spell = EmptyMap
  /\ suggest = EmptyMap
  /\ camel = EmptyMap
  /\ token = << >>
  /\ run = 0
  /\ phase = "idle"
  /\ misspellings = 0
  /\ misspelled = {}
  /\ records = << >>
  /\ lastCheck = NoWordCall
  /\ firstCheck = NoWordCall
  /\ wordsFile = << >>
  /\ rerun = "none"

NoQuery == [kind |-> "none", file |-> << >>, line |-> 0, result |-> FALSE]

\* Exit status codes.
success == 0
internalError == 1
invocationError == 2
spellingError == 8

\* status |= bit
statusWith(status, bit) ==
  IF (status \div bit) % 2 = 1 THEN status ELSE status + bit

NoEvents == [moduleLookup |-> FALSE, packagesLoaded |-> FALSE, gitDiff |-> FALSE,
             reported |-> FALSE]
NoFlags == [lang |-> << >>, suggest |-> 0, since |-> << >>, writeConf |-> FALSE,
            CheckStrings |-> FALSE, CheckEmbedded |-> FALSE,
            CheckURLs |-> FALSE, Filter |-> FALSE]
NoOracle == [accepted |-> {}, folds |-> FALSE]
NoFragment == [kind |-> "none", file |-> << >>, line |-> 0, text |-> << >>,
               url |-> "none"]
NoOutcome == [fragment |-> NoFragment, visited |-> FALSE, filtered |-> FALSE,
              tokens |-> 0, records |-> 0, noted |-> 0]

\* The program gospel is not running.
GospelIdle ==
  /\ gPc = "idle"
  /\ gStatus = success
  /\ gStderr = ""
  /\ gStdout = FALSE
  /\ gEvents = NoEvents
  /\ gConfig = NoFlags
  /\ gOracle = NoOracle
  /\ gFilter = NilFilter
  /\ gChecked = 0
  /\ gCounter = 0
  /\ gRecords = 0
  /\ gLast = NoOutcome

\* report is not being run.
ReportIdle ==
  /\ rPolicy = never
  /\ rSuggest = << >>
  /\ rMisspellings = << >>
  /\ rSorted = << >>
  /\ rChunks = << >>
  /\ rLines = << >>
  /\ rShown = << >>
  /\ rState = "idle"

\* writeMisspellings is not being run.
WordsIdle ==
  /\ wWords = FALSE
  /\ wUpdate = FALSE
  /\ wNoted = {}
  /\ wRoots = << >>
  /\ wOut = << >>
  /\ wState = "idle"

\* No function is being called on its own.
NoFuncCall == [fn |-> "none", result |-> FALSE]

FuncIdle ==
  /\ fnInput = << >>
  /\ fnCall = NoFuncCall

\* No change filter is being asked.
ChangeIdle ==
  /\ changeFilter = NilFilter
  /\ changeQuery = NoQuery

\* No fragment is being scanned.
ScanIdle ==
  /\ text = << >>
  /\ doubleQuoted = FALSE
  /\ bufStart = 0
  /\ bufEnd = 0
  /\ atEOF = FALSE
  /\ needData = FALSE
  /\ current = [pos |-> 0, end |-> 0]
  /\ tokens = << >>
  /\ lastCall = [called |-> FALSE, data |-> << >>, atEOF |-> FALSE,
                 advance |-> 0, hasToken |-> FALSE, token |-> << >>]
  /\ scanState = "idle"

(***************************************************************************)
(* The fragment texts of the model: every byte string up to MaxTextLen     *)
(* over one of these alphabets.                                            *)
(*   hex escapes:      \ x 4 space                                         *)
(*   other escapes:    \ q 4 space                                         *)
(*   quotes:           \ n a '                                             *)
(*   exponents:        e - 4 a                                             *)
(***************************************************************************)
ScanAlphabets == {{92, 120, 52, 32}, {92, 113, 52, 32}, {92, 110, 97, 39},
                  {101, 45, 52, 97}}

\* Longer texts with a whole escape in them: "a \x44 a", "\u0044 a",
\* "\U00000044", "\444 a", "a\444", "\qrs a", "it's 4e-4" and " a\n a".
LongTexts ==
  {<<97, 32, 92, 120, 52, 52, 32, 97>>,
   <<92, 117, 48, 48, 52, 52, 32, 97>>,
   <<92, 85, 48, 48, 48, 48, 48, 48, 52, 52>>,
   <<92, 52, 52, 52, 32, 97>>,
   <<97, 92, 52, 52, 52>>,
   <<92, 113, 114, 115, 32, 97>>,
   <<105, 116, 39, 115, 32, 52, 101, 45, 52>>,
   <<32, 97, 92, 110, 32, 97>>}

ScanTexts ==
  UNION {StringsUpTo(a, MaxTextLen) : a \in ScanAlphabets} \cup LongTexts

NoCall == [called |-> FALSE, data |-> << >>, atEOF |-> FALSE,
           advance |-> 0, hasToken |-> FALSE, token |-> << >>]

ScanInit ==
  /\ text \in ScanTexts
  /\ doubleQuoted \in BOOLEAN
  /\ bufStart = 0
  /\ bufEnd = 0
  /\ atEOF = FALSE
  /\ needData = FALSE
  /\ current = [pos |-> 0, end |-> 0]
  /\ tokens = << >>
  /\ lastCall = NoCall
  /\ scanState = "scanning"
  /\ DiffIdle
  /\ CheckIdle
  /\ ChangeIdle
  /\ GospelIdle
  /\ WordsIdle
  /\ ReportIdle
  /\ FuncIdle

\* bufio.Scanner calls the split function when it holds data or is at EOF.
\* The call's advance is checked against the data; a token ends the Scan
\* call, no token at EOF ends the scan, and no token otherwise makes the
\* Scanner read more.
ScanCall ==
  /\ scanState = "scanning"
  /\ ~needData
  /\ bufEnd > bufStart \/ atEOF
  /\ LET data == Slice(text, bufStart, bufEnd)
         ret  == ScanWords(current, doubleQuoted, data, atEOF)
     IN /\ current' = ret.current
        /\ lastCall' = [called |-> TRUE, data |-> data, atEOF |-> atEOF,
                        advance |-> ret.advance, hasToken |-> ret.hasToken,
                        token |-> ret.token]
        /\ IF ret.advance > Len(data)
           THEN /\ scanState' = "error"
                /\ UNCHANGED <<bufStart, tokens, needData>>
           ELSE /\ bufStart' = bufStart + ret.advance
                /\ tokens' = IF ret.hasToken
                             THEN Append(tokens, [token |-> ret.token,
                                                  pos |-> ret.current.pos,
                                                  end |-> ret.current.end])
                             ELSE tokens
                /\ needData' = (~ret.hasToken /\ ~atEOF)
                /\ scanState' = IF ~ret.hasToken /\ atEOF THEN "done"
                                ELSE "scanning"
  /\ UNCHANGED <<text, doubleQuoted, bufEnd, atEOF>>
  /\ UNCHANGED diffVars
  /\ UNCHANGED checkVars
  /\ UNCHANGED changeVars
  /\ UNCHANGED gospelVars
  /\ UNCHANGED wordsVars
  /\ UNCHANGED reportVars
  /\ UNCHANGED funcVars

\* The Scanner reads more of the text: any positive number of bytes, as the
\* free space of its buffer allows.
ReadData ==
  /\ scanState = "scanning"
  /\ ~atEOF
  /\ needData \/ bufEnd = bufStart
  /\ bufEnd < Len(text)
  /\ \E n \in 1..(Len(text) - bufEnd) : bufEnd' = bufEnd + n
  /\ needData' = FALSE
  /\ UNCHANGED <<text, doubleQuoted, bufStart, atEOF, current, tokens,
                 lastCall, scanState>>
  /\ UNCHANGED diffVars
  /\ UNCHANGED checkVars
  /\ UNCHANGED changeVars
  /\ UNCHANGED gospelVars
  /\ UNCHANGED wordsVars
  /\ UNCHANGED reportVars
  /\ UNCHANGED funcVars

\* The reader has no more text: it reports io.EOF.
ReadEOF ==
  /\ scanState = "scanning"
  /\ ~atEOF
  /\ needData \/ bufEnd = bufStart
  /\ bufEnd = Len(text)
  /\ atEOF' = TRUE
  /\ needData' = FALSE
  /\ UNCHANGED <<text, doubleQuoted, bufStart, bufEnd, current, tokens,
                 lastCall, scanState>>
  /\ UNCHANGED diffVars
  /\ UNCHANGED checkVars
  /\ UNCHANGED changeVars
  /\ UNCHANGED gospelVars
  /\ UNCHANGED wordsVars
  /\ UNCHANGED reportVars
  /\ UNCHANGED funcVars

ScanNext == ScanCall \/ ReadData \/ ReadEOF

SpecScan == ScanInit /\ [][ScanNext]_vars

(***************************************************************************)
(* additions(r): one action for each turn of its loop over the lines, by   *)
(* the case of the switch the line takes, and one for its return.          *)
(***************************************************************************)
DiffInit ==
  /\ diffEntries \in UNION {[1..k -> DiffEntries] : k \in 0..MaxDiffLines}
  /\ diffLines = [i \in 1..Len(diffEntries) |-> RenderEntry(diffEntries[i])]
  /\ diffPos = 0
  /\ diffPath = << >>
  /\ diffAdditions = EmptyMap
  /\ diffState = "parsing"
  /\ ScanIdle
  /\ CheckIdle
  /\ ChangeIdle
  /\ GospelIdle
  /\ WordsIdle
  /\ ReportIdle
  /\ FuncIdle

NextDiffLine == diffLines[diffPos + 1]

\* case bytes.HasPrefix(sc.Bytes(), []byte(fileAdditionPrefix))
AdditionsFileLine ==
  /\ diffState = "parsing"
  /\ diffPos < Len(diffLines)
  /\ HasPrefix(NextDiffLine, fileAdditionPrefix)
  /\ diffPath' = TrimPrefix(NextDiffLine, fileAdditionPrefix)
  /\ diffPos' = diffPos + 1
  /\ UNCHANGED <<diffEntries, diffLines, diffAdditions, diffState>>
  /\ UNCHANGED scanVars
  /\ UNCHANGED checkVars
  /\ UNCHANGED changeVars
  /\ UNCHANGED gospelVars
  /\ UNCHANGED wordsVars
  /\ UNCHANGED reportVars
  /\ UNCHANGED funcVars

\* case bytes.HasPrefix(sc.Bytes(), []byte(hunkPrefix))
AdditionsHunkLine ==
  /\ diffState = "parsing"
  /\ diffPos < Len(diffLines)
  /\ ~HasPrefix(NextDiffLine, fileAdditionPrefix)
  /\ HasPrefix(NextDiffLine, hunkPrefix)
  /\ LET h == hunkLine(NextDiffLine)
     IN CASE h.outcome = "panic" ->
               /\ diffState' = "panic"
               /\ UNCHANGED diffAdditions
          [] h.outcome \in {"malformed", "badend", "badstart"} ->
               /\ diffState' = "error"
               /\ diffAdditions' = EmptyMap
          [] h.outcome = "skip" ->
               UNCHANGED <<diffState, diffAdditions>>
          [] h.outcome = "range" ->
               /\ diffAdditions' = AppendRange(diffAdditions, diffPath, h.range)
               /\ UNCHANGED diffState
  /\ diffPos' = diffPos + 1
  /\ UNCHANGED <<diffEntries, diffLines, diffPath>>
  /\ UNCHANGED scanVars
  /\ UNCHANGED checkVars
  /\ UNCHANGED changeVars
  /\ UNCHANGED gospelVars
  /\ UNCHANGED wordsVars
  /\ UNCHANGED reportVars
  /\ UNCHANGED funcVars

\* default: continue
AdditionsOtherLine ==
  /\ diffState = "parsing"
  /\ diffPos < Len(diffLines)
  /\ ~HasPrefix(NextDiffLine, fileAdditionPrefix)
  /\ ~HasPrefix(NextDiffLine, hunkPrefix)
  /\ diffPos' = diffPos + 1
  /\ UNCHANGED <<diffEntries, diffLines, diffPath, diffAdditions, diffState>>
  /\ UNCHANGED scanVars
  /\ UNCHANGED checkVars
  /\ UNCHANGED changeVars
  /\ UNCHANGED gospelVars
  /\ UNCHANGED wordsVars
  /\ UNCHANGED reportVars
  /\ UNCHANGED funcVars

\* sc.Scan() returns false: return additions, nil
AdditionsReturn ==
  /\ diffState = "parsing"
  /\ diffPos = Len(diffLines)
  /\ diffState' = "done"
  /\ UNCHANGED <<diffEntries, diffLines, diffPos, diffPath, diffAdditions>>
  /\ UNCHANGED scanVars
  /\ UNCHANGED checkVars
  /\ UNCHANGED changeVars
  /\ UNCHANGED gospelVars
  /\ UNCHANGED wordsVars
  /\ UNCHANGED reportVars
  /\ UNCHANGED funcVars

DiffNext ==
  AdditionsFileLine \/ AdditionsHunkLine \/ AdditionsOtherLine
    \/ AdditionsReturn

SpecDiff == DiffInit /\ [][DiffNext]_vars

(***************************************************************************)
(* The words of the model: every byte string up to MaxWordBytes over       *)
(* A a _ 1 s, and some longer ones.                                        *)
(***************************************************************************)
CheckAlphabet == {65, 97, 95, 49, 115}

LongWords ==
  { <<97, 95, 97>>,            \* a_a
    <<97, 95, 65>>,            \* a_A
    <<65, 95, 97>>,            \* A_a
    <<97, 95, 115>>,           \* a_s
    <<97, 65, 97>>,            \* aAa
    <<49, 95, 49>>,            \* 1_1
    <<49, 49, 115>>,           \* 11s
    <<95, 97, 95>>,            \* _a_
    <<97, 95, 95, 97>>,        \* a__a
    <<97, 97, 39, 115>>,       \* aa's
    <<92, 120, 52, 49>> }      \* \x41

Words == StringsUpTo(CheckAlphabet, MaxWordBytes) \cup LongWords

AllConfigs ==
  {Config(m, h, u, s, n, c) :
     m \in {0, 2}, h \in {0, 2}, u \in BOOLEAN, s \in BOOLEAN,
     n \in BOOLEAN, c \in BOOLEAN}

RunConfigs ==
  {Config(0, 0, u, FALSE, FALSE, c) : u \in BOOLEAN, c \in BOOLEAN}

(***************************************************************************)
(* The oracle.  A suggestion list for a word is any list of at most        *)
(* MaxSuggestions candidates, each the word with the case of its letters   *)
(* swapped or the word with an a appended, and never the word itself,      *)
(* which the dictionary has rejected.  A camel split of a word is any      *)
(* cutting of it into non-empty pieces.                                    *)
(***************************************************************************)
SwapCase(w) ==
  [i \in 1..Len(w) |-> IF w[i] \in 65..90 THEN w[i] + 32
                       ELSE IF w[i] \in 97..122 THEN w[i] - 32 ELSE w[i]]

SuggestLists(word) ==
  StringsUpTo({SwapCase(word), word \o <<97>>} \ {word}, MaxSuggestions)

RECURSIVE PiecesAt(_, _)
PiecesAt(word, cuts) ==
  IF cuts = {} THEN <<word>>
  ELSE LET c == CHOOSE x \in cuts : \A y \in cuts : x <= y
       IN <<Slice(word, 0, c)>>
            \o PiecesAt(SliceFrom(word, c), {d - c : d \in cuts \ {c}})

CamelSplits(word) ==
  IF Len(word) = 0 THEN {<< >>}
  ELSE {PiecesAt(word, cuts) : cuts \in SUBSET (1..(Len(word) - 1))}

Elements(s) == {s[i] : i \in 1..Len(s)}

(***************************************************************************)
(* A run of the program over one word.                                     *)
(***************************************************************************)
\* newDictionary and newChecker of a first run, made with -misspellings.
CheckInit(configs) ==
  /\ config \in configs
  /\ wordsFlag = TRUE
  /\ spell = EmptyMap
  /\ suggest = EmptyMap
  /\ camel = EmptyMap
  /\ token \in Words
  /\ run = 1
  /\ phase = "check"
  /\ misspellings = 0
  /\ misspelled = {}
  /\ records = << >>
  /\ lastCheck = NoWordCall
  /\ firstCheck = NoWordCall
  /\ wordsFile = << >>
  /\ rerun = "none"
  /\ ScanIdle
  /\ DiffIdle
  /\ ChangeIdle
  /\ GospelIdle
  /\ WordsIdle
  /\ ReportIdle
  /\ FuncIdle

\* The body of the loop of check for the word the scanner delivers.  The
\* oracle answers as it has answered before, and what isCorrect does not
\* ask takes no part in the step.
CheckToken ==
  /\ phase = "check"
  /\ LET trimmed == trimCommonSuffix(token)
         word == stripUnderscores(trimmed)
         whole == IF Len(word) = 0 THEN << >> ELSE <<word>>
         splits == IF ~config.CamelSplit THEN {whole}
                   ELSE IF word \in DOMAIN camel THEN {camel[word]}
                   ELSE CamelSplits(word)
         lists == IF word \in DOMAIN suggest THEN {suggest[word]}
                  ELSE SuggestLists(word)
     IN \E fragments \in splits, suggestions \in lists :
          LET needed == {word} \cup Elements(splitWord(config, word, fragments))
          IN \E answers \in [needed -> BOOLEAN] :
               LET v == isCorrect(config, word, answers, suggestions,
                                  fragments)
                   split == v.suggested /\ ~v.fold /\ config.CamelSplit
               IN /\ \A x \in needed \cap DOMAIN spell : answers[x] = spell[x]
                  /\ \A x \in needed \ (DOMAIN spell \cup Elements(v.lookups)) :
                       ~answers[x]
                  /\ (~v.suggested /\ word \notin DOMAIN suggest)
                       => suggestions = << >>
                  /\ (~split /\ word \notin DOMAIN camel) => fragments = whole
                  /\ spell' = [x \in DOMAIN spell \cup Elements(v.lookups) |->
                                 IF x \in DOMAIN spell THEN spell[x]
                                 ELSE answers[x]]
                  /\ suggest' = IF v.suggested
                                THEN (word :> suggestions) @@ suggest
                                ELSE suggest
                  /\ camel' = IF split THEN (word :> fragments) @@ camel
                              ELSE camel
                  /\ misspellings' = misspellings + Len(v.noted)
                  /\ misspelled' = IF wordsFlag
                                   THEN misspelled \cup Elements(v.noted)
                                   ELSE misspelled
                  /\ records' = IF v.ok THEN records
                                ELSE Append(records,
                                            [word |-> trimmed,
                                             note |-> "misspelled"])
                  /\ lastCheck' = [word |-> word, verdict |-> v]
  /\ phase' = "report"
  /\ UNCHANGED <<config, wordsFlag, token, run, firstCheck, wordsFile, rerun>>
  /\ UNCHANGED scanVars
  /\ UNCHANGED diffVars
  /\ UNCHANGED changeVars
  /\ UNCHANGED gospelVars
  /\ UNCHANGED wordsVars
  /\ UNCHANGED reportVars
  /\ UNCHANGED funcVars

\* The end of gospel: d.writeMisspellings().
WriteMisspellings ==
  /\ phase = "report"
  /\ wordsFile' = IF wordsFlag THEN MisspellingsFile(misspelled) ELSE wordsFile
  /\ phase' = "end"
  /\ UNCHANGED <<config, wordsFlag, spell, suggest, camel, token, run,
                 misspellings, misspelled, records, lastCheck, firstCheck,
                 rerun>>
  /\ UNCHANGED scanVars
  /\ UNCHANGED diffVars
  /\ UNCHANGED changeVars
  /\ UNCHANGED gospelVars
  /\ UNCHANGED wordsVars
  /\ UNCHANGED reportVars
  /\ UNCHANGED funcVars

\* A second run without -misspellings: newDictionary loads the .words file
\* the first run wrote.  The suggestion lists are the dictionary's new ones.
RerunWithWords ==
  /\ phase = "end"
  /\ run = 1
  /\ run' = 2
  /\ rerun' = "words"
  /\ wordsFlag' = FALSE
  /\ spell' = AddDict(spell, DictionaryWords(wordsFile))
  /\ suggest' = EmptyMap
  /\ misspellings' = 0
  /\ misspelled' = {}
  /\ records' = << >>
  /\ firstCheck' = lastCheck
  /\ phase' = "check"
  /\ UNCHANGED <<config, camel, token, lastCheck, wordsFile>>
  /\ UNCHANGED scanVars
  /\ UNCHANGED diffVars
  /\ UNCHANGED changeVars
  /\ UNCHANGED gospelVars
  /\ UNCHANGED wordsVars
  /\ UNCHANGED reportVars
  /\ UNCHANGED funcVars

\* A second run whose dictionary has had entries added (more identifiers,
\* more dictionary files): some of the words rejected so far are accepted.
RerunWithAdditions ==
  /\ phase = "end"
  /\ run = 1
  /\ run' = 2
  /\ rerun' = "additions"
  /\ \E added \in SUBSET {x \in DOMAIN spell : ~spell[x]} :
       spell' = AddDict(spell, added)
  /\ suggest' = EmptyMap
  /\ misspellings' = 0
  /\ misspelled' = {}
  /\ records' = << >>
  /\ firstCheck' = lastCheck
  /\ phase' = "check"
  /\ UNCHANGED <<config, wordsFlag, camel, token, lastCheck, wordsFile>>
  /\ UNCHANGED scanVars
  /\ UNCHANGED diffVars
  /\ UNCHANGED changeVars
  /\ UNCHANGED gospelVars
  /\ UNCHANGED wordsVars
  /\ UNCHANGED reportVars
  /\ UNCHANGED funcVars

WordInit == CheckInit(AllConfigs)

WordNext == CheckToken \/ WriteMisspellings

SpecWord == WordInit /\ [][WordNext]_vars

RunsInit == CheckInit(RunConfigs)

RunsNext ==
  CheckToken \/ WriteMisspellings \/ RerunWithWords \/ RerunWithAdditions

SpecRuns == RunsInit /\ [][RunsNext]_vars

(***************************************************************************)
(* The heuristics isNakedHex and isHexRune called on a word: every byte    *)
(* string up to MaxHexLen over the bytes 0x10 1 a F g, and words that      *)
(* start with a backslash.                                                 *)
(***************************************************************************)
HexAlphabet == {16, 49, 97, 70, 103}

RuneLiteralWords ==
  { <<92, 55>>,                                       \* \7
    <<92, 49, 50>>,                                   \* \12
    <<92, 49, 48, 49>>,                               \* \101
    <<92, 49, 50, 51, 52>>,                           \* \1234
    <<92, 49, 56, 49, 49>>,                           \* \1811
    <<92, 120, 52, 49>>,                              \* \x41
    <<92, 120, 52, 103>>,                             \* \x4g
    <<92, 120, 16, 16>>,                              \* \x and two bytes 0x10
    <<92, 120, 52, 49, 49>>,                          \* \x411
    <<92, 117, 48, 48, 52, 49>>,                      \* \u0041
    <<92, 117, 48, 48, 52>>,                          \* \u004
    <<92, 85, 48, 48, 48, 48, 48, 48, 52, 49>>,       \* \U00000041
    <<92, 85, 48, 48, 52, 49>>,                       \* \U0041
    <<92, 113, 49, 50>>,                              \* \q12
    <<120, 52, 49, 49>> }                             \* x411

HexWords == StringsUpTo(HexAlphabet, MaxHexLen) \cup RuneLiteralWords

HexMinLens == {0, 1, 2, 3}

HeuristicInit ==
  /\ fnInput \in [word : HexWords, minLen : HexMinLens]
  /\ fnCall = NoFuncCall
  /\ ScanIdle
  /\ DiffIdle
  /\ CheckIdle
  /\ ChangeIdle
  /\ GospelIdle
  /\ WordsIdle
  /\ ReportIdle

\* isNakedHex{minLen}.isAcceptable(word, partial)
NakedHexCall ==
  /\ fnCall' = [fn |-> "isNakedHex",
                result |-> isNakedHex(fnInput.minLen, fnInput.word)]
  /\ UNCHANGED fnInput
  /\ UNCHANGED scanVars
  /\ UNCHANGED diffVars
  /\ UNCHANGED checkVars
  /\ UNCHANGED changeVars
  /\ UNCHANGED gospelVars
  /\ UNCHANGED wordsVars
  /\ UNCHANGED reportVars

\* isHexRune{}.isAcceptable(word, partial)
HexRuneCall ==
  /\ fnCall' = [fn |-> "isHexRune", result |-> isHexRune(fnInput.word)]
  /\ UNCHANGED fnInput
  /\ UNCHANGED scanVars
  /\ UNCHANGED diffVars
  /\ UNCHANGED checkVars
  /\ UNCHANGED changeVars
  /\ UNCHANGED gospelVars
  /\ UNCHANGED wordsVars
  /\ UNCHANGED reportVars

HeuristicNext == NakedHexCall \/ HexRuneCall

SpecHeuristic == HeuristicInit /\ [][HeuristicNext]_vars

(***************************************************************************)
(* entropy called on a text: every byte string up to MaxEntropyLen over    *)
(* the bytes 0x01, tab, a and b, with and without the printable option.    *)
(***************************************************************************)
EntropyAlphabet == {1, 9, 97, 98}

EntropyTexts == StringsUpTo(EntropyAlphabet, MaxEntropyLen)

EntropyInit ==
  /\ fnInput \in [text : EntropyTexts, print : BOOLEAN]
  /\ fnCall = NoFuncCall
  /\ ScanIdle
  /\ DiffIdle
  /\ CheckIdle
  /\ ChangeIdle
  /\ GospelIdle
  /\ WordsIdle
  /\ ReportIdle

\* entropy(text, print): the result is the counts its sum is made of.
EntropyCall ==
  /\ fnCall' = [fn |-> "entropy",
                result |-> entropyCounts(fnInput.text, fnInput.print)]
  /\ UNCHANGED fnInput
  /\ UNCHANGED scanVars
  /\ UNCHANGED diffVars
  /\ UNCHANGED checkVars
  /\ UNCHANGED changeVars
  /\ UNCHANGED gospelVars
  /\ UNCHANGED wordsVars
  /\ UNCHANGED reportVars

EntropyNext == EntropyCall

SpecEntropy == EntropyInit /\ [][EntropyNext]_vars

(***************************************************************************)
(* Visit on a string literal and the comment loop on a comment line, with  *)
(* the entropy filter and the masks off: what is measured, and what the    *)
(* tokenizer is given.  The bodies are the byte strings up to              *)
(* MaxLiteralLen over a, backslash, n and the double quote; a double-      *)
(* quoted literal is one the Go parser takes: every backslash of its body  *)
(* starts an escape and every double quote in it is escaped.               *)
(***************************************************************************)
LiteralAlphabet == {97, 92, 110, 34}

LiteralBodies == StringsUpTo(LiteralAlphabet, MaxLiteralLen)

RECURSIVE validBody(_)
validBody(s) ==
  IF Len(s) = 0 THEN TRUE
  ELSE IF s[1] = 92 THEN Len(s) >= 2 /\ validBody(SliceFrom(s, 2))
  ELSE s[1] # 34 /\ validBody(Tail(s))

SourceTexts ==
  {[kind |-> "comment", value |-> <<47, 47>> \o b] : b \in LiteralBodies}
    \cup {[kind |-> "string", value |-> <<96>> \o b \o <<96>>] :
             b \in LiteralBodies}
    \cup {[kind |-> "string", value |-> <<34>> \o b \o <<34>>] :
             b \in {x \in LiteralBodies : validBody(x)}}

VisitInit ==
  /\ fnInput \in SourceTexts
  /\ fnCall = NoFuncCall
  /\ ScanIdle
  /\ DiffIdle
  /\ CheckIdle
  /\ ChangeIdle
  /\ GospelIdle
  /\ WordsIdle
  /\ ReportIdle

\* What check does with the text it is called on: the reader holds the
\* text, and the words are scanned with a new words value.
Tokenized(fn, measured, print, txt) ==
  fnCall' = [fn |-> fn, measured |-> measured, print |-> print,
             text |-> txt, doubleQuoted |-> NewWords.doubleQuoted,
             tokens |-> scanText(NewWords.current, txt, FALSE)]

\* c.Visit(n) for a string literal n.
VisitLiteral ==
  /\ fnInput.kind = "string"
  /\ \E txt \in {visitChecked(fnInput.value)} :
       Tokenized("Visit", literalText(fnInput.value), fnInput.value[1] = 34,
                 txt)
  /\ UNCHANGED fnInput
  /\ UNCHANGED scanVars
  /\ UNCHANGED diffVars
  /\ UNCHANGED checkVars
  /\ UNCHANGED changeVars
  /\ UNCHANGED gospelVars
  /\ UNCHANGED wordsVars
  /\ UNCHANGED reportVars

\* c.check(l.Text, l, "comment") for a comment line l.
CheckComment ==
  /\ fnInput.kind = "comment"
  /\ \E txt \in {fnInput.value} : Tokenized("comment", << >>, FALSE, txt)
  /\ UNCHANGED fnInput
  /\ UNCHANGED scanVars
  /\ UNCHANGED diffVars
  /\ UNCHANGED checkVars
  /\ UNCHANGED changeVars
  /\ UNCHANGED gospelVars
  /\ UNCHANGED wordsVars
  /\ UNCHANGED reportVars

VisitNext == VisitLiteral \/ CheckComment

SpecVisit == VisitInit /\ [][VisitNext]_vars

(***************************************************************************)
(* report.go: adjustIndents, which Show applies to every line it prints.   *)
(* The texts are made of lines: a first line and at most                   *)
(* MaxIndentLines - 1 further lines, joined by newlines.                   *)
(***************************************************************************)
MaxIndentLines == 3

\* strings.LastIndex(s, "\n") for a one-byte separator: the 0-based index
\* of the last c in s, or -1.
LastIndexByte(s, c) ==
  IF \E i \in 1..Len(s) : s[i] = c
  THEN (CHOOSE i \in 1..Len(s) : s[i] = c /\ \A j \in (i + 1)..Len(s) : s[j] # c) - 1
  ELSE -1

\* indentLevel(chunk): 0 unless chunk is a block comment of several lines;
\* otherwise the index of the first byte of the last line that is not a
\* tab, and -1 when the last line has no such byte.
indentLevel(chunk) ==
  IF ~HasPrefix(chunk, <<47, 42>>) THEN 0
  ELSE LET lastLine == LastIndexByte(chunk, 10)
           tail == SliceFrom(chunk, lastLine + 1)
       IN IF lastLine < 0 THEN 0
          ELSE IF \E i \in 1..Len(tail) : tail[i] # 9
          THEN (CHOOSE i \in 1..Len(tail) :
                  tail[i] # 9 /\ \A j \in 1..(i - 1) : tail[j] = 9) - 1
          ELSE -1

\* The slice expression l[indent:] of adjustIndents panics when indent is
\* outside 0..len(l).
sliceInRange(l, indent) == 0 <= indent /\ indent <= Len(l)

\* The loop of adjustIndents over lines[i..], with buf what is written so
\* far: an empty line is skipped, every line but the first loses its first
\* indent bytes, and the line is written after a tab and before a newline.
RECURSIVE adjustLines(_, _, _, _)
adjustLines(lines, i, indent, buf) ==
  IF i > Len(lines) THEN [panic |-> FALSE, out |-> buf]
  ELSE IF lines[i] = << >> THEN adjustLines(lines, i + 1, indent, buf)
  ELSE IF i # 1 /\ ~sliceInRange(lines[i], indent)
  THEN [panic |-> TRUE, out |-> buf]
  ELSE adjustLines(lines, i + 1, indent,
         buf \o <<9>>
             \o (IF i # 1 THEN SliceFrom(lines[i], indent) ELSE lines[i])
             \o <<10>>)

adjustIndents(s) ==
  adjustLines(stringsSplit(s, 10), 1, indentLevel(s), << >>)

\* The lines of the texts: empty, a word, a word after one or two tabs, and
\* the closing line of a block comment after no, one or two tabs.
IndentFirstLines == {<<47, 42>>, <<47, 47, 97>>}
IndentLines ==
  {<< >>, <<97>>, <<9, 97>>, <<9, 9, 97>>,
   <<42, 47>>, <<9, 42, 47>>, <<9, 9, 42, 47>>}

RECURSIVE joinLines(_)
joinLines(ls) ==
  IF Len(ls) = 0 THEN << >>
  ELSE IF Len(ls) = 1 THEN ls[1]
  ELSE ls[1] \o <<10>> \o joinLines(Tail(ls))

IndentTexts ==
  {joinLines(<<f>> \o ls) :
     f \in IndentFirstLines, ls \in StringsUpTo(IndentLines, MaxIndentLines - 1)}

IndentInit ==
  /\ fnInput \in IndentTexts
  /\ fnCall = NoFuncCall
  /\ ScanIdle
  /\ DiffIdle
  /\ CheckIdle
  /\ ChangeIdle
  /\ GospelIdle
  /\ WordsIdle
  /\ ReportIdle

\* fmt.Print(adjustIndents(l.text)) of Show for a line l without words.
AdjustIndentsCall ==
  /\ \E r \in {adjustIndents(fnInput)} :
       fnCall' = [fn |-> "adjustIndents", panic |-> r.panic, out |-> r.out]
  /\ UNCHANGED fnInput
  /\ UNCHANGED scanVars
  /\ UNCHANGED diffVars
  /\ UNCHANGED checkVars
  /\ UNCHANGED changeVars
  /\ UNCHANGED gospelVars
  /\ UNCHANGED wordsVars
  /\ UNCHANGED reportVars

IndentNext == AdjustIndentsCall

SpecIndent == IndentInit /\ [][IndentNext]_vars

(***************************************************************************)
(* The change filter of a checker: nil when -since is not given, and       *)
(* otherwise a map as additions builds it, with at most MaxRanges ranges   *)
(* for each of its paths, and possibly no path at all.                     *)
(***************************************************************************)
FilterRanges ==
  {[start |-> 1, end |-> 1], [start |-> 1, end |-> 2],
   [start |-> 10, end |-> 10], [start |-> 10, end |-> 19]}

RangeLists == StringsUpTo(FilterRanges, MaxRanges) \ {<< >>}

FilterMaps ==
  UNION {[paths -> RangeLists] : paths \in SUBSET DiffPaths}

QueryFiles == DiffPaths \cup {<<104>>}     \* "f", "g" and "h"
QueryLines == {0, 1, 2, 10, 19, 20}

ChangeInit ==
  /\ changeFilter \in {NilFilter} \cup {MapFilter(m) : m \in FilterMaps}
  /\ changeQuery = NoQuery
  /\ ScanIdle
  /\ DiffIdle
  /\ CheckIdle
  /\ GospelIdle
  /\ WordsIdle
  /\ ReportIdle
  /\ FuncIdle

\* f.isInChange(pos, fset) for a position at line of file.
IsInChangeCall ==
  /\ \E file \in QueryFiles, line \in QueryLines :
       changeQuery' = [kind |-> "position", file |-> file, line |-> line,
                       result |-> isInChange(changeFilter, file, line)]
  /\ UNCHANGED changeFilter
  /\ UNCHANGED scanVars
  /\ UNCHANGED diffVars
  /\ UNCHANGED checkVars
  /\ UNCHANGED gospelVars
  /\ UNCHANGED wordsVars
  /\ UNCHANGED reportVars
  /\ UNCHANGED funcVars

\* f.fileIsInChange(pos, fset) for a position in file.
FileIsInChangeCall ==
  /\ \E file \in QueryFiles :
       changeQuery' = [kind |-> "file", file |-> file, line |-> 0,
                       result |-> fileIsInChange(changeFilter, file)]
  /\ UNCHANGED changeFilter
  /\ UNCHANGED scanVars
  /\ UNCHANGED diffVars
  /\ UNCHANGED checkVars
  /\ UNCHANGED gospelVars
  /\ UNCHANGED wordsVars
  /\ UNCHANGED reportVars
  /\ UNCHANGED funcVars

ChangeNext == IsInChangeCall \/ FileIsInChangeCall

SpecChange == ChangeInit /\ [][ChangeNext]_vars

(***************************************************************************)
(* A run of the program.  Its inputs come as it reads them: the config     *)
(* file, the flags, the packages, the dictionary, the diff, and then the   *)
(* fragments, each a body of text on one line of a file, written as a      *)
(* line comment ("//" and the body), as a double-quoted literal without    *)
(* escapes, or as the data of an embedded file.  A fragment may hold one   *)
(* URL besides its text, which is masked before the words are scanned      *)
(* (mask_urls) and whose target is dead or alive.  The heuristics are the  *)
(* defaults of config.go with -camel=false and -ignore-single=false; the   *)
(* entropy filter, when on, has min_len_filtered 4 and the accept window   *)
(* [2, 3], so that a text of four bytes is accepted when its entropy is    *)
(* between 1 and log2(3) bits.                                             *)
(***************************************************************************)
GospelHeuristics == Config(40, 8, TRUE, FALSE, TRUE, FALSE)
GospelEntropy(on) == [Filter |-> on, MinLenFiltered |-> 4, Low |-> 2, High |-> 3]

\* -check-strings, -check-embedded, -check-urls and -entropy-filter.
GospelOptions ==
  {[CheckStrings |-> FALSE, CheckEmbedded |-> FALSE, CheckURLs |-> FALSE,
    Filter |-> FALSE],
   [CheckStrings |-> TRUE, CheckEmbedded |-> TRUE, CheckURLs |-> TRUE,
    Filter |-> FALSE],
   [CheckStrings |-> TRUE, CheckEmbedded |-> TRUE, CheckURLs |-> TRUE,
    Filter |-> TRUE]}

\* -config is left at its default.
GospelUseConfig == {TRUE}
GospelLangs == {<< >>, <<101, 110>>}                    \* "" and "en"
GospelSuggests == {-1, 0, 4}
\* "", "v1" and "v1..v5"
GospelSinces == {<< >>, <<118, 49>>, <<118, 49, 46, 46, 118, 53>>}

\* "a" (too short to be filtered), "a   " (0.81 bits), "a  a" (1 bit) and
\* "a.,;" (2 bits)
GospelBodies == {<<97>>, <<97, 32, 32, 32>>, <<97, 32, 32, 97>>,
                 <<97, 46, 44, 59>>}
GospelOracles ==
  {[accepted |-> a, folds |-> f] : a \in SUBSET {<<97>>}, f \in BOOLEAN}

\* The filters additions returns for the diffs of the run: no added line,
\* or line 1 of f.
GospelFilters ==
  {MapFilter(EmptyMap),
   MapFilter([q \in {<<102>>} |-> <<[start |-> 1, end |-> 1]>>])}

GospelPositions ==
  {[file |-> <<102>>, line |-> 1], [file |-> <<102>>, line |-> 2],
   [file |-> <<103>>, line |-> 1]}

Fragments(kinds) ==
  {[kind |-> k, file |-> p.file, line |-> p.line, text |-> b, url |-> u] :
     k \in kinds, p \in GospelPositions, b \in GospelBodies,
     u \in {"none", "dead"}}

\* l.Text of a comment, n.Value of a literal, the data of an embedded file.
fragmentText(frag) ==
  CASE frag.kind = "comment" -> <<47, 47>> \o frag.text
    [] frag.kind = "string" -> <<34>> \o frag.text \o <<34>>
    [] OTHER -> frag.text

oracleSpell(o, word) ==
  [w \in {word} \cup Elements(stringsSplit(word, 95)) |-> w \in o.accepted]

oracleSuggest(o, word) ==
  IF o.folds /\ SwapCase(word) # word THEN <<SwapCase(word)>> ELSE << >>

\* The verdict of check on one token.
tokenVerdict(o, tok) ==
  LET word == stripUnderscores(trimCommonSuffix(tok))
  IN isCorrect(GospelHeuristics, word, oracleSpell(o, word),
               oracleSuggest(o, word), <<word>>)

RECURSIVE notedCount(_, _)
notedCount(o, toks) ==
  IF Len(toks) = 0 THEN 0
  ELSE Len(tokenVerdict(o, Head(toks).token).noted) + notedCount(o, Tail(toks))

\* A loop of check in which every scanned word, accepted or not, is noted.
checkWordsNotingAll(o, toks, urls) ==
  LET bad == {i \in 1..Len(toks) : ~tokenVerdict(o, toks[i].token).ok}
  IN [tokens  |-> Len(toks),
      records |-> Cardinality(bad) + urls,
      noted   |-> Len(toks) + urls]

\* The loop of check over the words toks that were scanned in the change,
\* after urls unreachable URLs were recorded: the words looked at, the
\* misspelled records made, and the calls of noteMisspelling.
checkWords(o, toks, urls) ==
  LET bad == {i \in 1..Len(toks) : ~tokenVerdict(o, toks[i].token).ok}
  IN [tokens  |-> Len(toks),
      records |-> Cardinality(bad) + urls,
      noted   |-> notedCount(o, toks) + urls]

(***************************************************************************)
(* The misspelled records of one call of check, with their spans, and what *)
(* Show makes of them.  A URL of a text is http:// and the bytes after it  *)
(* up to the next space, as xurls.Strict finds it in texts whose words and *)
(* URLs are separated by spaces.                                           *)
(***************************************************************************)
MaxPieces == 2

URLScheme == <<104, 116, 116, 112, 58, 47, 47>>

\* urls.FindAllStringIndex(text, -1) for what is left of a text from the
\* 0-based offset from: the matches in order, none overlapping another.
RECURSIVE findURLs(_, _)
findURLs(txt, from) ==
  IF from >= Len(txt) THEN << >>
  ELSE IF HasPrefix(SliceFrom(txt, from), URLScheme)
          /\ from + Len(URLScheme) < Len(txt)
          /\ txt[from + Len(URLScheme) + 1] # 32
  THEN LET sp == IndexByte(SliceFrom(txt, from), 32)
           end == IF sp < 0 THEN Len(txt) ELSE from + sp
       IN <<[pos |-> from, end |-> end]>> \o findURLs(txt, end)
  ELSE findURLs(txt, from + 1)

\* c.textReader(text): with mask_urls every byte of a URL is a space.
textReader(maskURLs, txt) ==
  IF ~maskURLs THEN txt
  ELSE [i \in 1..Len(txt) |->
          IF \E k \in 1..Len(findURLs(txt, 0)) :
               findURLs(txt, 0)[k].pos < i /\ i <= findURLs(txt, 0)[k].end
          THEN 32 ELSE txt[i]]

\* c.confirmURLtargets(dst, text, node): a record for every URL of the text
\* whose target is not reached, in the order of the matches.
confirmURLtargets(dst, txt, dead) ==
  dst \o [k \in 1..(IF dead THEN Len(findURLs(txt, 0)) ELSE 0) |->
            [word |-> Slice(txt, findURLs(txt, 0)[k].pos,
                            findURLs(txt, 0)[k].end),
             span |-> findURLs(txt, 0)[k], suggest |-> FALSE]]

\* The loop of check over the scanned words: a record for every word that
\* isCorrect rejects, after the records that are there.
RECURSIVE appendMisspelled(_, _, _)
appendMisspelled(dst, o, toks) ==
  IF Len(toks) = 0 THEN dst
  ELSE appendMisspelled(
         IF tokenVerdict(o, Head(toks).token).ok THEN dst
         ELSE Append(dst, [word |-> trimCommonSuffix(Head(toks).token),
                           span |-> Head(toks).span, suggest |-> TRUE]),
         o, Tail(toks))

\* The words of the misspelling check makes of a text, for a node in the
\* change: the URL records first when check_urls is set, then the words.
misspelledWords(checkURLs, maskURLs, dead, o, txt) ==
  appendMisspelled(
    IF checkURLs THEN confirmURLtargets(<< >>, txt, dead) ELSE << >>,
    o, scanText([pos |-> 0, end |-> 0], textReader(maskURLs, txt), FALSE))

\* The decoration c.warn of a text: an escape sequence, here one byte,
\* before and after it.
warn(s) == <<27>> \o s \o <<27>>

\* text[lo:hi] panics unless 0 <= lo <= hi <= len(text).
sliceOK(txt, lo, hi) == 0 <= lo /\ lo <= hi /\ hi <= Len(txt)

\* The body of the loop of Show for the word w of a line, with args joined
\* so far and lastPos: whether a slice expression panics, and args and
\* lastPos after it.
showWord(txt, w, st) ==
  IF (w.span.pos # st.lastPos /\ ~sliceOK(txt, st.lastPos, w.span.pos))
       \/ ~sliceOK(txt, w.span.pos, w.span.pos + Len(w.word))
       \/ ~sliceOK(txt, w.span.pos + Len(w.word), w.span.end)
  THEN [panic |-> TRUE, out |-> st.out, lastPos |-> st.lastPos]
  ELSE [panic |-> FALSE,
        out |-> st.out \o Slice(txt, st.lastPos, w.span.pos)
                       \o warn(Slice(txt, w.span.pos, w.span.pos + Len(w.word)))
                       \o Slice(txt, w.span.pos + Len(w.word), w.span.end),
        lastPos |-> w.span.end]

\* The loop of Show over the words of a line from the i-th.
RECURSIVE showWords(_, _, _, _)
showWords(txt, ws, i, st) ==
  IF st.panic \/ i > Len(ws) THEN st
  ELSE showWords(txt, ws, i + 1, showWord(txt, ws[i], st))

\* After the loop: what is left of the line, and adjustIndents.
showRest(txt, st) ==
  IF st.panic THEN [panic |-> TRUE, out |-> st.out]
  ELSE IF st.lastPos = Len(txt)
  THEN IF st.out = << >> THEN [panic |-> FALSE, out |-> << >>]
       ELSE adjustIndents(st.out)
  ELSE IF ~sliceOK(txt, st.lastPos, Len(txt))
  THEN [panic |-> TRUE, out |-> st.out]
  ELSE adjustIndents(st.out \o SliceFrom(txt, st.lastPos))

\* What Show prints for a line with words.
showLine(txt, ws) ==
  showRest(txt, showWords(txt, ws, 1,
                          [panic |-> FALSE, out |-> << >>, lastPos |-> 0]))

\* The texts: at most MaxPieces words and URLs with a space between them.
Pieces == {<<122, 122>>, URLScheme \o <<97>>}

RECURSIVE joinPieces(_)
joinPieces(ps) ==
  IF Len(ps) = 0 THEN << >>
  ELSE IF Len(ps) = 1 THEN ps[1]
  ELSE ps[1] \o <<32>> \o joinPieces(Tail(ps))

PieceTexts == {joinPieces(ps) : ps \in StringsUpTo(Pieces, MaxPieces)}

\* The dictionaries: what is accepted of the words of the texts.
PieceOracles ==
  {[accepted |-> a, folds |-> FALSE] :
     a \in SUBSET {<<122, 122>>, <<104, 116, 116, 112>>, <<97>>}}

MisspelledInit ==
  /\ fnInput \in [text : PieceTexts, CheckURLs : BOOLEAN, MaskURLs : BOOLEAN,
                  dead : BOOLEAN, oracle : PieceOracles]
  /\ fnCall = NoFuncCall
  /\ ScanIdle
  /\ DiffIdle
  /\ CheckIdle
  /\ ChangeIdle
  /\ GospelIdle
  /\ WordsIdle
  /\ ReportIdle

\* c.check(text, node, where) without -since.
CheckText ==
  /\ fnCall.fn = "none"
  /\ fnCall' = [fn |-> "check",
                words |-> misspelledWords(fnInput.CheckURLs, fnInput.MaskURLs,
                                       fnInput.dead, fnInput.oracle,
                                       fnInput.text)]
  /\ UNCHANGED fnInput
  /\ UNCHANGED scanVars
  /\ UNCHANGED diffVars
  /\ UNCHANGED checkVars
  /\ UNCHANGED changeVars
  /\ UNCHANGED gospelVars
  /\ UNCHANGED wordsVars
  /\ UNCHANGED reportVars

\* The body of the loop of Show in report for the misspelling of the text.
ShowText ==
  /\ fnCall.fn = "check"
  /\ fnCall.words # << >>
  /\ \E r \in {showLine(fnInput.text, fnCall.words)} :
       fnCall' = [fn |-> "Show", words |-> fnCall.words, panic |-> r.panic,
                  out |-> r.out]
  /\ UNCHANGED fnInput
  /\ UNCHANGED scanVars
  /\ UNCHANGED diffVars
  /\ UNCHANGED checkVars
  /\ UNCHANGED changeVars
  /\ UNCHANGED gospelVars
  /\ UNCHANGED wordsVars
  /\ UNCHANGED reportVars

MisspelledNext == CheckText \/ ShowText

SpecMisspelled == MisspelledInit /\ [][MisspelledNext]_vars

(***************************************************************************)
(* main.go: the loop over the lines of a comment group, which gives the    *)
(* lines next to a misspelled line as context, and what Show prints for    *)
(* the group.  The lines of a group are on successive lines of one file.   *)
(***************************************************************************)
MaxGroupLines == 4

GroupFile == <<102>>
LineOffset(i) == (i - 1) * 8

\* The misspelling of the i-th line of the group with the given words; a
\* context line has none.
GroupEntry(lines, i, ws) ==
  [file |-> GroupFile, offset |-> LineOffset(i), line |-> i, endLine |-> i,
   where |-> IF ws = << >> THEN "" ELSE "comment", text |-> lines[i],
   words |-> ws]

\* The records c.check(l.Text, l, "comment") makes for the i-th line.
lineWords(filter, o, lines, i) ==
  IF ~isInChange(filter, GroupFile, i) THEN << >>
  ELSE misspelledWords(FALSE, TRUE, FALSE, o, lines[i])

\* The body of the loop over g.List for the i-th line, whose check made
\* the records ws: c.misspellings and lastOK after it.
lineChecked(lines, i, st, ws) ==
  [ms |-> st.ms
            \o (IF ws # << >> THEN <<GroupEntry(lines, i, ws)>> ELSE << >>)
            \o (IF ws # << >> /\ i # 1 /\ st.lastOK
                THEN <<GroupEntry(lines, i - 1, << >>)>>
                ELSE IF ws = << >> /\ ~st.lastOK
                THEN <<GroupEntry(lines, i, << >>)>>
                ELSE << >>),
   lastOK |-> ws = << >>]

\* The loop over g.List from its i-th line, with c.misspellings and lastOK.
RECURSIVE commentGroup(_, _, _, _, _)
commentGroup(filter, o, lines, i, st) ==
  IF i > Len(lines) THEN st.ms
  ELSE commentGroup(filter, o, lines, i + 1,
                    lineChecked(lines, i, st, lineWords(filter, o, lines, i)))

\* What Show prints for the i-th misspelling l of a chunk.
showEntry(chunk, i, l) ==
  IF l.words = << >>
  THEN IF i = 1 \/ l.text # chunk[i - 1].text
       THEN <<[line |-> l.line, context |-> TRUE,
               printed |-> adjustIndents(l.text)]>>
       ELSE << >>
  ELSE <<[line |-> l.line, context |-> FALSE,
          printed |-> showLine(l.text, l.words)]>>

\* The loop of Show over a chunk from its i-th misspelling: the lines that
\* are printed, each with what is printed for it.
RECURSIVE showChunk(_, _)
showChunk(chunk, i) ==
  IF i > Len(chunk) THEN << >>
  ELSE showEntry(chunk, i, chunk[i]) \o showChunk(chunk, i + 1)

RECURSIVE showChunks(_, _)
showChunks(chunks, k) ==
  IF k > Len(chunks) THEN << >>
  ELSE showChunk(chunks[k], 1) \o showChunks(chunks, k + 1)

\* The lines of the groups: a misspelled word, an accepted word, and an
\* empty comment.
GroupLineTexts == {<<47, 47, 122, 122>>, <<47, 47, 97>>, <<47, 47>>}
GroupOracle == [accepted |-> {<<97>>}, folds |-> FALSE]

Groups == UNION {[1..k -> GroupLineTexts] : k \in 1..MaxGroupLines}

\* Without -since, or with the first line of the file as the only line of
\* the change.
GroupFilters ==
  {NilFilter, MapFilter([q \in {GroupFile} |-> <<[start |-> 1, end |-> 1]>>])}

GroupInit ==
  /\ fnInput \in [lines : Groups, filter : GroupFilters]
  /\ fnCall = NoFuncCall
  /\ ScanIdle
  /\ DiffIdle
  /\ CheckIdle
  /\ ChangeIdle
  /\ GospelIdle
  /\ WordsIdle
  /\ ReportIdle

\* The loop of main over the lines of the comment group.
CheckGroup ==
  /\ fnCall.fn = "none"
  /\ fnCall' = [fn |-> "comments",
                entries |-> commentGroup(fnInput.filter, GroupOracle,
                                         fnInput.lines, 1,
                                         [ms |-> << >>, lastOK |-> TRUE]),
                shown |-> << >>]
  /\ UNCHANGED fnInput
  /\ UNCHANGED scanVars
  /\ UNCHANGED diffVars
  /\ UNCHANGED checkVars
  /\ UNCHANGED changeVars
  /\ UNCHANGED gospelVars
  /\ UNCHANGED wordsVars
  /\ UNCHANGED reportVars

\* c.report() with Show: the misspellings are sorted, put in chunks and
\* printed.
ShowGroup ==
  /\ fnCall.fn = "comments"
  /\ \E sorted \in {sortSlice(fnCall.entries)} :
       fnCall' = [fn |-> "report", entries |-> sorted,
                  shown |-> showChunks(chunkFrom(sorted, 1, << >>, << >>), 1)]
  /\ UNCHANGED fnInput
  /\ UNCHANGED scanVars
  /\ UNCHANGED diffVars
  /\ UNCHANGED checkVars
  /\ UNCHANGED changeVars
  /\ UNCHANGED gospelVars
  /\ UNCHANGED wordsVars
  /\ UNCHANGED reportVars

GroupNext == CheckGroup \/ ShowGroup

SpecGroup == GroupInit /\ [][GroupNext]_vars

\* What check adds for a node outside the change.
Nothing == [tokens |-> 0, records |-> 0, noted |-> 0]

\* c.check(text, node, where) for a node at the fragment's position.
check(cfg, o, filter, frag, txt) ==
  IF ~isInChange(filter, frag.file, frag.line) THEN Nothing
  ELSE checkWords(o, scanText([pos |-> 0, end |-> 0], txt, FALSE),
                  IF cfg.CheckURLs /\ frag.url = "dead" THEN 1 ELSE 0)

Outcome(frag, visited, filtered, r) ==
  [fragment |-> frag, visited |-> visited, filtered |-> filtered,
   tokens |-> r.tokens, records |-> r.records, noted |-> r.noted]

GospelInit ==
  /\ gPc = "loadConfig"
  /\ gStatus = success
  /\ gStderr = ""
  /\ gStdout = FALSE
  /\ gEvents = NoEvents
  /\ gConfig = NoFlags
  /\ gOracle = NoOracle
  /\ gFilter = NilFilter
  /\ gChecked = 0
  /\ gCounter = 0
  /\ gRecords = 0
  /\ gLast = NoOutcome
  /\ ScanIdle
  /\ DiffIdle
  /\ CheckIdle
  /\ ChangeIdle
  /\ WordsIdle
  /\ ReportIdle
  /\ FuncIdle

\* return with a status, after a message to stderr.
Exit(status, message) ==
  /\ gPc' = "exit"
  /\ gStatus' = status
  /\ gStderr' = message

\* config, status, err := loadConfig(): with -config (the default) the
\* module is looked up with packages.Load and its .gospel.conf decoded.
LoadConfig ==
  /\ gPc = "loadConfig"
  /\ \E useConfig \in GospelUseConfig, decoded \in BOOLEAN :
       /\ ~useConfig => decoded
       /\ gEvents' = [gEvents EXCEPT !.moduleLookup = useConfig]
       /\ IF decoded
          THEN /\ gPc' = "flags"
               /\ UNCHANGED <<gStatus, gStderr>>
          ELSE Exit(invocationError, "config")
  /\ UNCHANGED <<gStdout, gConfig, gOracle, gFilter, gChecked, gCounter,
                 gRecords, gLast>>
  /\ UNCHANGED scanVars
  /\ UNCHANGED diffVars
  /\ UNCHANGED checkVars
  /\ UNCHANGED changeVars
  /\ UNCHANGED wordsVars
  /\ UNCHANGED reportVars
  /\ UNCHANGED funcVars

\* flag.Parse() and the tests that follow it, to -write-config.
ParseFlags ==
  /\ gPc = "flags"
  /\ \E lang \in GospelLangs, level \in GospelSuggests,
        since \in GospelSinces, writeConf \in BOOLEAN, o \in GospelOptions :
       /\ gConfig' = [lang |-> lang, suggest |-> level, since |-> since,
                      writeConf |-> writeConf,
                      CheckStrings |-> o.CheckStrings,
                      CheckEmbedded |-> o.CheckEmbedded,
                      CheckURLs |-> o.CheckURLs, Filter |-> o.Filter]
       /\ CASE lang = << >> ->
                 /\ Exit(invocationError, "missing lang flag")
                 /\ UNCHANGED gStdout
            [] lang # << >> /\ (level < never \/ always < level) ->
                 /\ Exit(invocationError, "invalid suggest flag value")
                 /\ UNCHANGED gStdout
            [] lang # << >> /\ ~(level < never \/ always < level)
                 /\ Contains(since, <<46, 46>>) ->
                 /\ Exit(invocationError,
                         "cannot use commit range for since argument")
                 /\ UNCHANGED gStdout
            [] lang # << >> /\ ~(level < never \/ always < level)
                 /\ ~Contains(since, <<46, 46>>) /\ writeConf ->
                 /\ Exit(success, "")
                 /\ gStdout' = TRUE
            [] OTHER ->
                 /\ gPc' = "load"
                 /\ UNCHANGED <<gStatus, gStderr, gStdout>>
  /\ UNCHANGED <<gEvents, gOracle, gFilter, gChecked, gCounter, gRecords,
                 gLast>>
  /\ UNCHANGED scanVars
  /\ UNCHANGED diffVars
  /\ UNCHANGED checkVars
  /\ UNCHANGED changeVars
  /\ UNCHANGED wordsVars
  /\ UNCHANGED reportVars
  /\ UNCHANGED funcVars

\* pkgs, err := packages.Load(cfg, flag.Args()...) and PrintErrors.
LoadPackages ==
  /\ gPc = "load"
  /\ gEvents' = [gEvents EXCEPT !.packagesLoaded = TRUE]
  /\ \E failed \in BOOLEAN :
       IF failed THEN Exit(internalError, "load")
       ELSE /\ gPc' = "dictionary"
            /\ UNCHANGED <<gStatus, gStderr>>
  /\ UNCHANGED <<gStdout, gConfig, gOracle, gFilter, gChecked, gCounter,
                 gRecords, gLast>>
  /\ UNCHANGED scanVars
  /\ UNCHANGED diffVars
  /\ UNCHANGED checkVars
  /\ UNCHANGED changeVars
  /\ UNCHANGED wordsVars
  /\ UNCHANGED reportVars
  /\ UNCHANGED funcVars

\* d, err := newDictionary(pkgs, config)
NewDictionary ==
  /\ gPc = "dictionary"
  /\ \/ /\ Exit(internalError, "dictionary")
        /\ UNCHANGED gOracle
     \/ /\ gOracle' \in GospelOracles
        /\ gPc' = "checker"
        /\ UNCHANGED <<gStatus, gStderr>>
  /\ UNCHANGED <<gStdout, gEvents, gConfig, gFilter, gChecked, gCounter,
                 gRecords, gLast>>
  /\ UNCHANGED scanVars
  /\ UNCHANGED diffVars
  /\ UNCHANGED checkVars
  /\ UNCHANGED changeVars
  /\ UNCHANGED wordsVars
  /\ UNCHANGED reportVars
  /\ UNCHANGED funcVars

\* c, err := newChecker(d, config): with -since, gitAdditionsSince runs
\* git diff and parses its output.
NewChecker ==
  /\ gPc = "checker"
  /\ IF gConfig.since = << >>
     THEN /\ gPc' = "files"
          /\ UNCHANGED <<gStatus, gStderr, gEvents, gFilter>>
     ELSE /\ gEvents' = [gEvents EXCEPT !.gitDiff = TRUE]
          /\ \/ /\ Exit(invocationError, "checker")
                /\ UNCHANGED gFilter
             \/ /\ gFilter' \in GospelFilters
                /\ gPc' = "files"
                /\ UNCHANGED <<gStatus, gStderr>>
  /\ UNCHANGED <<gStdout, gConfig, gOracle, gChecked, gCounter, gRecords,
                 gLast>>
  /\ UNCHANGED scanVars
  /\ UNCHANGED diffVars
  /\ UNCHANGED checkVars
  /\ UNCHANGED changeVars
  /\ UNCHANGED wordsVars
  /\ UNCHANGED reportVars
  /\ UNCHANGED funcVars

\* What the loops do with a fragment that check is called on.
Checked(frag, txt, filtered) ==
  \E r \in {check(gConfig, gOracle, gFilter, frag, txt)} :
    /\ gLast' = Outcome(frag, TRUE, filtered, r)
    /\ gCounter' = gCounter + r.noted
    /\ gRecords' = gRecords + r.records

\* What they do with one that is passed over.
PassedOver(frag, filtered) ==
  /\ gLast' = Outcome(frag, FALSE, filtered, Nothing)
  /\ UNCHANGED <<gCounter, gRecords>>

\* The loop over the files of the packages comes to a string literal
\* (ast.Walk with Visit, under -check-strings) or to a line of a comment
\* group.
CheckSource ==
  /\ gPc = "files"
  /\ gChecked < MaxFragments
  /\ gChecked' = gChecked + 1
  /\ \E frag \in Fragments({"comment", "string"}) :
       /\ frag.kind = "string" =>
            (gConfig.CheckStrings /\ fileIsInChange(gFilter, frag.file))
       /\ IF ~fileIsInChange(gFilter, frag.file)
          THEN PassedOver(frag, FALSE)
          ELSE IF /\ frag.kind = "string"
                  /\ unexpectedEntropy(GospelEntropy(gConfig.Filter),
                                       literalText(fragmentText(frag)), TRUE)
          THEN PassedOver(frag, TRUE)
          ELSE \E txt \in {fragmentText(frag)} : Checked(frag, txt, FALSE)
  /\ UNCHANGED <<gPc, gStatus, gStderr, gStdout, gEvents, gConfig, gOracle,
                 gFilter>>
  /\ UNCHANGED scanVars
  /\ UNCHANGED diffVars
  /\ UNCHANGED checkVars
  /\ UNCHANGED changeVars
  /\ UNCHANGED wordsVars
  /\ UNCHANGED reportVars
  /\ UNCHANGED funcVars

\* if c.CheckEmbedded: embedded, err := embedFiles(flag.Args())
ListEmbedded ==
  /\ gPc = "files"
  /\ gConfig.CheckEmbedded
  /\ \E failed \in BOOLEAN :
       IF failed
       THEN /\ Exit(internalError, "")
            /\ gStdout' = TRUE
       ELSE /\ gPc' = "embedded"
            /\ UNCHANGED <<gStatus, gStderr, gStdout>>
  /\ UNCHANGED <<gEvents, gConfig, gOracle, gFilter, gChecked, gCounter,
                 gRecords, gLast>>
  /\ UNCHANGED scanVars
  /\ UNCHANGED diffVars
  /\ UNCHANGED checkVars
  /\ UNCHANGED changeVars
  /\ UNCHANGED wordsVars
  /\ UNCHANGED reportVars
  /\ UNCHANGED funcVars

\* The loop over the embedded files comes to a file that cannot be read.
EmbeddedUnread ==
  /\ gPc = "embedded"
  /\ gChecked < MaxFragments
  /\ Exit(internalError, "")
  /\ gStdout' = TRUE
  /\ UNCHANGED <<gEvents, gConfig, gOracle, gFilter, gChecked, gCounter,
                 gRecords, gLast>>
  /\ UNCHANGED scanVars
  /\ UNCHANGED diffVars
  /\ UNCHANGED checkVars
  /\ UNCHANGED changeVars
  /\ UNCHANGED wordsVars
  /\ UNCHANGED reportVars
  /\ UNCHANGED funcVars

\* The loop over the embedded files comes to a file: loadEmbedded empties
\* the data of a file of unexpected entropy, and check is called on the
\* data of a file in the change.
CheckEmbeddedFile ==
  /\ gPc = "embedded"
  /\ gChecked < MaxFragments
  /\ gChecked' = gChecked + 1
  /\ \E frag \in Fragments({"embedded file"}) :
       \E filtered \in {unexpectedEntropy(GospelEntropy(gConfig.Filter),
                                          fragmentText(frag), FALSE)} :
         \E data \in {IF filtered THEN << >> ELSE fragmentText(frag)} :
           IF ~fileIsInChange(gFilter, frag.file)
           THEN PassedOver(frag, filtered)
           ELSE Checked([frag EXCEPT !.url = IF filtered THEN "none" ELSE @],
                        data, filtered)
  /\ UNCHANGED <<gPc, gStatus, gStderr, gStdout, gEvents, gConfig, gOracle,
                 gFilter>>
  /\ UNCHANGED scanVars
  /\ UNCHANGED diffVars
  /\ UNCHANGED checkVars
  /\ UNCHANGED changeVars
  /\ UNCHANGED wordsVars
  /\ UNCHANGED reportVars
  /\ UNCHANGED funcVars

\* The end of gospel: the status, c.report() and d.writeMisspellings().
Finish ==
  /\ \/ gPc = "files" /\ ~gConfig.CheckEmbedded
     \/ gPc = "embedded"
  /\ gPc' = "exit"
  /\ gEvents' = [gEvents EXCEPT !.reported = TRUE]
  /\ gStdout' = (gRecords > 0)
  /\ \E failed \in BOOLEAN :
       LET status == IF gCounter # 0 THEN statusWith(gStatus, spellingError)
                     ELSE gStatus
       IN /\ gStatus' = IF failed THEN statusWith(status, internalError)
                        ELSE status
          /\ gStderr' = IF failed THEN "words" ELSE gStderr
  /\ UNCHANGED <<gConfig, gOracle, gFilter, gChecked, gCounter, gRecords,
                 gLast>>
  /\ UNCHANGED scanVars
  /\ UNCHANGED diffVars
  /\ UNCHANGED checkVars
  /\ UNCHANGED changeVars
  /\ UNCHANGED wordsVars
  /\ UNCHANGED reportVars
  /\ UNCHANGED funcVars

GospelNext ==
  \/ LoadConfig
  \/ ParseFlags
  \/ LoadPackages
  \/ NewDictionary
  \/ NewChecker
  \/ CheckSource
  \/ ListEmbedded
  \/ EmbeddedUnread
  \/ CheckEmbeddedFile
  \/ Finish

SpecGospel == GospelInit /\ [][GospelNext]_vars

(***************************************************************************)
(* The writing of the misspellings file.  The words noted are "", "a" and  *)
(* "b" (the empty word is noted when a token of underscores is rejected);  *)
(* there are two module roots, whose .words file is absent, unreadable,    *)
(* empty, or a count and at most MaxOldEntries lines, each "a", "c/S" or   *)
(* an empty line.                                                          *)
(***************************************************************************)
NotedWords == {<< >>, <<97>>, <<98>>}
OldEntries == {<< >>, <<97>>, <<99, 47, 83>>}

OldFile(state, lines) == [state |-> state, lines |-> lines]

OldFiles ==
  {OldFile("absent", << >>), OldFile("unreadable", << >>),
   OldFile("file", << >>)}
    \cup {OldFile("file", <<Itoa(Len(es))>> \o es) :
            es \in StringsUpTo(OldEntries, MaxOldEntries)}

WordsFileInit ==
  /\ wWords \in BOOLEAN
  /\ wUpdate \in BOOLEAN
  /\ wNoted \in IF wWords THEN SUBSET NotedWords ELSE {{}}
  /\ wRoots \in [1..2 -> OldFiles]
  /\ wOut = << >>
  /\ wState = "noted"
  /\ ScanIdle
  /\ DiffIdle
  /\ CheckIdle
  /\ ChangeIdle
  /\ GospelIdle
  /\ ReportIdle
  /\ FuncIdle

\* The files of the roots that os.Open opens.
Opened == {wRoots[r].lines : r \in {q \in 1..2 : wRoots[q].state = "file"}}

\* No root's .words fails to open for a reason other than its absence.
AllOpenOrAbsent == \A r \in 1..2 : wRoots[r].state # "unreadable"

\* d.writeMisspellings() returns nil: without -misspellings nothing is
\* written; with it the file is created and written.
WriteWordsFile ==
  /\ wState = "noted"
  /\ (wWords /\ wUpdate) => AllOpenOrAbsent
  /\ IF wWords
     THEN /\ wOut' = writeMisspellings(wNoted, wUpdate, Opened)
          /\ wState' = "written"
     ELSE /\ wOut' = wOut
          /\ wState' = "unwritten"
  /\ UNCHANGED <<wWords, wUpdate, wNoted, wRoots>>
  /\ UNCHANGED scanVars
  /\ UNCHANGED diffVars
  /\ UNCHANGED checkVars
  /\ UNCHANGED changeVars
  /\ UNCHANGED gospelVars
  /\ UNCHANGED reportVars
  /\ UNCHANGED funcVars

\* d.writeMisspellings() returns an error: a .words file could not be
\* opened, or the misspellings file could not be created or written.
WriteWordsError ==
  /\ wState = "noted"
  /\ wWords
  /\ wState' = "error"
  /\ UNCHANGED <<wWords, wUpdate, wNoted, wRoots, wOut>>
  /\ UNCHANGED scanVars
  /\ UNCHANGED diffVars
  /\ UNCHANGED checkVars
  /\ UNCHANGED changeVars
  /\ UNCHANGED gospelVars
  /\ UNCHANGED reportVars
  /\ UNCHANGED funcVars

WordsFileNext == WriteWordsFile \/ WriteWordsError

SpecWordsFile == WordsFileInit /\ [][WordsFileNext]_vars

(***************************************************************************)
(* The report of a run that left at most MaxMisspellings misspellings,     *)
(* all comments and no two at the same place, in some order.  Each has one *)
(* of four texts: "a" with no misspelled word (a line of context),         *)
(* "a a" and "a's _b_" with every word rejected, and "http://x" with the   *)
(* URL unreachable.  The dictionary suggests "x" or nothing for a word.    *)
(* -show is left at its default.                                           *)
(***************************************************************************)
ReportPlace(f, offset, line, endLine) ==
  [file |-> f, offset |-> offset, line |-> line, endLine |-> endLine]

\* In f lines 1, 2-3 and 5; in g lines 1 and 2-3.
ReportPlaces ==
  {ReportPlace(<<102>>, 0, 1, 1), ReportPlace(<<102>>, 10, 2, 3),
   ReportPlace(<<102>>, 30, 5, 5), ReportPlace(<<103>>, 0, 1, 1),
   ReportPlace(<<103>>, 10, 2, 3)}

\* The misspelled records check makes for a text all of whose words the
\* dictionary rejects.
RECURSIVE rejectedWords(_, _)
rejectedWords(toks, i) ==
  IF i > Len(toks) THEN << >>
  ELSE <<[word |-> trimCommonSuffix(toks[i].token), span |-> toks[i].span,
          note |-> "misspelled", suggest |-> TRUE]>>
         \o rejectedWords(toks, i + 1)

\* The record confirmURLtargets makes for a text that is one URL.
unreachableURL(txt) ==
  <<[word |-> txt, span |-> [pos |-> 0, end |-> Len(txt)],
     note |-> "unreachable", suggest |-> FALSE]>>

ContextText == <<97>>                                   \* "a"
URLText == <<104, 116, 116, 112, 58, 47, 47, 120>>      \* "http://x"
\* "a a" and "a's _b_"
WordTexts == {<<97, 32, 97>>, <<97, 39, 115, 32, 95, 98, 95>>}

ReportContents ==
  {[text |-> ContextText, words |-> << >>],
   [text |-> URLText, words |-> unreachableURL(URLText)]}
    \cup {[text |-> x,
           words |-> rejectedWords(scanText([pos |-> 0, end |-> 0], x, FALSE),
                                   1)] : x \in WordTexts}

Misspelling(place, content) ==
  [file |-> place.file, offset |-> place.offset, line |-> place.line,
   endLine |-> place.endLine, where |-> "comment", text |-> content.text,
   words |-> content.words]

ReportWords == {<<97>>, <<95, 98, 95>>}                 \* "a", "_b_"
ReportOracles == [ReportWords -> {<< >>, <<<<120>>>>}]

\* The lists of misspellings at the places of a set, in every order and
\* with every content.
MisspellingLists ==
  UNION {{ms \in [1..k -> {Misspelling(p, c) :
                             p \in ReportPlaces, c \in ReportContents}] :
            \A i, j \in 1..k :
              i # j => (ms[i].file # ms[j].file
                          \/ ms[i].offset # ms[j].offset)} :
         k \in 0..MaxMisspellings}

ReportInit ==
  /\ rPolicy \in never..always
  /\ rSuggest \in ReportOracles
  /\ rMisspellings \in MisspellingLists
  /\ rSorted = << >>
  /\ rChunks = << >>
  /\ rLines = << >>
  /\ rShown = << >>
  /\ rState = "checked"
  /\ ScanIdle
  /\ DiffIdle
  /\ CheckIdle
  /\ ChangeIdle
  /\ GospelIdle
  /\ WordsIdle
  /\ FuncIdle

\* c.report()
Report ==
  /\ rState = "checked"
  /\ LET sorted == sortSlice(rMisspellings)
         chunks == chunkFrom(sorted, 1, << >>, << >>)
         occs   == occurrencesOf(chunks, 1, 1)
         st     == printWords(rPolicy, rSuggest,
                              [cache |-> EmptyMap, chunk |-> 0, local |-> {},
                               lines |-> << >>],
                              occs, 1)
     IN /\ rSorted' = sorted
        /\ rChunks' = chunks
        /\ rLines' = st.lines
        /\ rShown' = [i \in 1..Len(occs) |-> shownWord(occs[i].m.text,
                                                       occs[i].w)]
  /\ rState' = "reported"
  /\ UNCHANGED <<rPolicy, rSuggest, rMisspellings>>
  /\ UNCHANGED scanVars
  /\ UNCHANGED diffVars
  /\ UNCHANGED checkVars
  /\ UNCHANGED changeVars
  /\ UNCHANGED gospelVars
  /\ UNCHANGED wordsVars
  /\ UNCHANGED funcVars

ReportNext == Report

SpecReport == ReportInit /\ [][ReportNext]_vars

(***************************************************************************)
(* Claims about the scanner.                                               *)
(***************************************************************************)
SpansOrdered(ts) ==
  \A i \in 1..Len(ts) :
    /\ 0 <= ts[i].pos
    /\ ts[i].pos + Len(ts[i].token) <= ts[i].end
    /\ i < Len(ts) => ts[i].end <= ts[i + 1].pos

\* C7: when a fragment text has been scanned to completion, the recorded
\* spans [pos,end) are in increasing order and pairwise disjoint, each token
\* equals text[pos:pos+len(token)], no span reaches past len(text), and the
\* scanner has consumed every byte of the text, so the spans and the gaps
\* between them tile the text exactly.
C7_SpansTileText ==
  scanState = "done" =>
    /\ SpansOrdered(tokens)
    /\ \A i \in 1..Len(tokens) :
         /\ tokens[i].end <= Len(text)
         /\ tokens[i].token =
              Slice(text, tokens[i].pos, tokens[i].pos + Len(tokens[i].token))
    /\ bufStart = Len(text)
    /\ current.end = Len(text)

\* A scan that ended with two words after a leading gap, the first closed by
\* an escape splitter that took more than one byte into its span.
C7_Witness ==
  /\ scanState = "done"
  /\ Len(tokens) = 2
  /\ tokens[1].pos > 0
  /\ tokens[1].end > tokens[1].pos + Len(tokens[1].token) + 1
  /\ tokens[2].pos > tokens[1].end
  /\ tokens[2].end = Len(text)

\* C8: ScanWords never returns an empty token: every call returns a token of
\* at least one byte, or no token.
C8_NoEmptyToken ==
  lastCall.called /\ lastCall.hasToken => Len(lastCall.token) >= 1

\* A call that skipped leading splitters and returned a one-byte word with
\* the splitter that closes it.
C8_Witness ==
  /\ lastCall.called
  /\ lastCall.hasToken
  /\ Len(lastCall.token) = 1
  /\ lastCall.data[1] = 32
  /\ lastCall.advance >= 3

\* A well-formed hex escape \xHH starts at byte p (0-based) of s, its
\* backslash not itself escaped.
HexEscapeAt(s, p) ==
  /\ p + 4 <= Len(s)
  /\ s[p + 1] = 92
  /\ s[p + 2] = 120
  /\ isHex(Slice(s, p + 2, p + 4))
  /\ p > 0 => s[p] # 92

\* C9 (first half): in non-double-quoted tokenizing a well-formed hex escape
\* such as \x41 is an escape splitter, so none of its bytes are in any
\* returned token.
C9_HexEscapeExcluded ==
  scanState = "done" /\ ~doubleQuoted =>
    \A p \in 0..Len(text) :
      HexEscapeAt(text, p) =>
        \A i \in 1..Len(tokens) :
          \/ tokens[i].pos + Len(tokens[i].token) <= p
          \/ p + 4 <= tokens[i].pos

\* A single-character escape starts at byte p (0-based) of s: a backslash
\* that is not itself the second byte of an escape (an even number of
\* backslashes runs up to it), followed by one of a b f n r t v \ ' ".
BackslashesBefore(s, p) ==
  LET first == CHOOSE k \in 0..p :
                 /\ \A j \in (k + 1)..p : s[j] = 92
                 /\ k > 0 => s[k] # 92
  IN  p - first

SingleEscapeAt(s, p) ==
  /\ p + 2 <= Len(s)
  /\ s[p + 1] = 92
  /\ s[p + 2] \in SingleEscapes
  /\ BackslashesBefore(s, p) % 2 = 0

\* C18: a backslash followed by a single-character escape letter is a word
\* splitter that consumes both bytes, in both quote modes and wherever it
\* occurs in the text, so neither byte is in any returned token.
C18_SingleEscapeSplits ==
  scanState = "done" =>
    \A p \in 0..Len(text) :
      SingleEscapeAt(text, p) =>
        \A i \in 1..Len(tokens) :
          \/ tokens[i].pos + Len(tokens[i].token) <= p
          \/ p + 2 <= tokens[i].pos

(***************************************************************************)
(* Claims about the diff parser.                                           *)
(***************************************************************************)
\* The ranges the hunk headers of entries 1..n ask for, read from the
\* entries and not from their lines: a hunk "+c,d" under the nearest file
\* header above it asks for [c, c+d-1], with d = 1 when the count is
\* omitted, and for nothing when d = 0.
RECURSIVE PathAt(_, _)
PathAt(es, n) ==
  IF n = 0 THEN << >>
  ELSE IF es[n].kind = "file" THEN es[n].path ELSE PathAt(es, n - 1)

RECURSIVE RangesAsked(_, _)
RangesAsked(es, n) ==
  IF n = 0 THEN EmptyMap
  ELSE LET before == RangesAsked(es, n - 1)
           e == es[n]
           d == IF e.d < 0 THEN 1 ELSE e.d
       IN IF e.kind = "hunk" /\ e.d # 0
          THEN AppendRange(before, PathAt(es, n),
                           [start |-> e.c, end |-> e.c + d - 1])
          ELSE before

\* Every line is well formed and every hunk header follows a file header.
GitDiff(es) ==
  /\ \A i \in 1..Len(es) : es[i].kind # "bad"
  /\ \A i \in 1..Len(es) :
       es[i].kind = "hunk" => \E j \in 1..(i - 1) : es[j].kind = "file"

\* C10: for a well-formed diff, additions returns, for each path, the
\* inclusive ranges [c, c+d-1] of its hunk headers "+c,d" (d = 1 when
\* omitted) in hunk order; a hunk whose added-side token ends in ",0"
\* appends nothing, so a path with only such hunks has no entry.
C10_AdditionsRanges ==
  (diffState = "done" /\ GitDiff(diffEntries))
    => diffAdditions = RangesAsked(diffEntries, Len(diffEntries))

\* A file with a pure-deletion hunk and a ten-line hunk (whose token ends
\* in "0" but not in ",0") has been parsed, giving one nine-apart range.
C10_Witness ==
  /\ diffState = "done"
  /\ GitDiff(diffEntries)
  /\ \E i, j \in 1..Len(diffEntries) :
       /\ diffEntries[i].kind = "hunk" /\ diffEntries[i].d = 0
       /\ diffEntries[j].kind = "hunk" /\ diffEntries[j].d = 10
  /\ \E q \in DOMAIN diffAdditions :
       /\ Len(diffAdditions[q]) = 1
       /\ diffAdditions[q][1].end = diffAdditions[q][1].start + 9

(***************************************************************************)
(* Claims about the decomposition checker.  The oracle of a behaviour is   *)
(* any dictionary that answers what the behaviour has it answer: what it   *)
(* is not asked, it may answer either way.                                 *)
(***************************************************************************)
OracleAccepts(x) == x \in DOMAIN spell /\ spell[x]
OracleRejects(x) == x \in DOMAIN spell /\ ~spell[x]
OracleMayAccept(x) == x \notin DOMAIN spell \/ spell[x]
OracleMayReject(x) == x \notin DOMAIN spell \/ ~spell[x]
SuggestsFold(w) == w \in DOMAIN suggest /\ caseFoldMatch(w, suggest[w])
MaySuggestFold(w) == w \notin DOMAIN suggest \/ caseFoldMatch(w, suggest[w])
MaySuggestNoFold(w) ==
  w \notin DOMAIN suggest \/ ~caseFoldMatch(w, suggest[w])

\* check has called isCorrect(lastCheck.word, false) in the first run.
FirstRunChecked == run = 1 /\ phase # "check"
SecondRunChecked == run = 2 /\ phase # "check"

\* w is A_B, cut at its i-th byte.
JoinedAt(w, i) == i \in 1..Len(w) /\ w[i] = 95
PartA(w, i) == Slice(w, 0, i - 1)
PartB(w, i) == SliceFrom(w, i)

\* C1 as stated: with camel splitting off, a word A_B whose parts A and B
\* the oracle accepts is accepted by isCorrect(A_B, false), whatever the
\* suggestion list for A_B holds.
C1_JoinedWordAccepted ==
  (FirstRunChecked /\ ~config.CamelSplit)
    => \A i \in 1..Len(lastCheck.word) :
         (/\ JoinedAt(lastCheck.word, i)
          /\ OracleMayAccept(PartA(lastCheck.word, i))
          /\ OracleMayAccept(PartB(lastCheck.word, i)))
           => lastCheck.verdict.ok

\* C1 amended: with camel splitting off, a word A_B whose parts A and B
\* hold no underscore and are accepted by the oracle is accepted by
\* isCorrect(A_B, false), provided the suggestion list for A_B holds no
\* candidate equal to A_B under case folding.
C1_JoinedWordAcceptedUnlessFold ==
  (FirstRunChecked /\ ~config.CamelSplit)
    => \A i \in 1..Len(lastCheck.word) :
         (/\ JoinedAt(lastCheck.word, i)
          /\ 95 \notin Elements(PartA(lastCheck.word, i))
          /\ 95 \notin Elements(PartB(lastCheck.word, i))
          /\ OracleMayAccept(PartA(lastCheck.word, i))
          /\ OracleMayAccept(PartB(lastCheck.word, i))
          /\ MaySuggestNoFold(lastCheck.word))
           => lastCheck.verdict.ok

\* A_B was rejected by the dictionary, its suggestion list holds candidates,
\* and it was accepted for its parts, both asked of the dictionary.
C1_Witness ==
  /\ FirstRunChecked
  /\ ~config.CamelSplit
  /\ \E i \in 1..Len(lastCheck.word) :
       /\ JoinedAt(lastCheck.word, i)
       /\ OracleAccepts(PartA(lastCheck.word, i))
       /\ OracleAccepts(PartB(lastCheck.word, i))
  /\ OracleRejects(lastCheck.word)
  /\ lastCheck.word \in DOMAIN suggest
  /\ Len(suggest[lastCheck.word]) = 2
  /\ lastCheck.verdict.ok

\* What C2 promises of a call: it returns false, asks the dictionary about
\* the whole word only, and notes the whole word, once.
RejectedWhole ==
  /\ ~lastCheck.verdict.ok
  /\ lastCheck.verdict.lookups = <<lastCheck.word>>
  /\ lastCheck.verdict.noted = <<lastCheck.word>>
  /\ misspellings = 1
  /\ misspelled = {lastCheck.word}
  /\ lastCheck.word \notin DOMAIN camel

\* C2 as stated: when the oracle rejects w and its suggestion list for w
\* holds a candidate equal to w under case folding, isCorrect(w, false)
\* returns false without splitting w, noting w and nothing else.
C2_FoldMatchRejectsWhole ==
  (/\ FirstRunChecked
   /\ OracleMayReject(lastCheck.word)
   /\ MaySuggestFold(lastCheck.word))
    => RejectedWhole

\* C2 amended: when no heuristic accepts w, the oracle rejects w and its
\* suggestion list for w holds a candidate equal to w under case folding,
\* isCorrect(w, false) returns false without splitting w, noting w and
\* nothing else.
C2_FoldMatchRejectsWholeUnlessHeuristic ==
  (/\ FirstRunChecked
   /\ ~heuristicsAccept(config, lastCheck.word, FALSE)
   /\ OracleMayReject(lastCheck.word)
   /\ MaySuggestFold(lastCheck.word))
    => RejectedWhole

\* A word with an underscore inside was rejected for a case-fold match that
\* is the second candidate of its suggestion list.
C2_Witness ==
  /\ FirstRunChecked
  /\ OracleRejects(lastCheck.word)
  /\ SuggestsFold(lastCheck.word)
  /\ ~EqualFold(suggest[lastCheck.word][1], lastCheck.word)
  /\ \E i \in 2..(Len(lastCheck.word) - 1) : lastCheck.word[i] = 95
  /\ RejectedWhole

\* C3: the record check appends for a word rejected for a case-fold match
\* has the note "misspelled (case mismatch)".
C3_CaseMismatchNote ==
  (FirstRunChecked /\ lastCheck.verdict.fold)
    => /\ Len(records) = 1
       /\ records[1].note = "misspelled (case mismatch)"

\* C4: under every configuration of the heuristics and of CamelSplit, a
\* word the oracle reports as correct is accepted by isCorrect(w, false)
\* and nothing is noted.
C4_DictionaryWordAccepted ==
  (FirstRunChecked /\ OracleMayAccept(lastCheck.word))
    => /\ lastCheck.verdict.ok
       /\ lastCheck.verdict.noted = << >>
       /\ misspellings = 0
       /\ misspelled = {}
       /\ records = << >>

\* A word no heuristic accepts, with an underscore inside, was accepted on
\* the dictionary's answer with every optional heuristic on.
C4_Witness ==
  /\ FirstRunChecked
  /\ OracleAccepts(lastCheck.word)
  /\ lastCheck.verdict.lookups = <<lastCheck.word>>
  /\ config.IgnoreUpper /\ config.IgnoreSingle /\ config.IgnoreNumbers
  /\ config.CamelSplit /\ config.MinNakedHex # 0
  /\ 95 \in Elements(lastCheck.word)
  /\ lastCheck.verdict.ok

(***************************************************************************)
(* Claims about two runs.                                                  *)
(***************************************************************************)
\* C5 as stated: a word isCorrect(w, false) accepted is accepted again
\* after entries have been added to the dictionary.
C5_AdditionsKeepAcceptance ==
  (SecondRunChecked /\ rerun = "additions" /\ firstCheck.verdict.ok)
    => lastCheck.verdict.ok

\* C5 amended: a word isCorrect(w, false) accepted is accepted again after
\* entries have been added to the dictionary, unless no heuristic accepts
\* it, the dictionary still rejects it and its suggestion list now holds a
\* candidate equal to it under case folding.
C5_AdditionsKeepAcceptanceUnlessFold ==
  (SecondRunChecked /\ rerun = "additions" /\ firstCheck.verdict.ok)
    => \/ lastCheck.verdict.ok
       \/ /\ ~heuristicsAccept(config, lastCheck.word, FALSE)
          /\ OracleRejects(lastCheck.word)
          /\ SuggestsFold(lastCheck.word)

\* A word accepted for its fragments in the first run was accepted again
\* for its fragments, asked of the dictionary in both runs, after a word
\* was added.
C5_Witness ==
  /\ SecondRunChecked
  /\ rerun = "additions"
  /\ firstCheck.verdict.ok
  /\ Len(firstCheck.verdict.lookups) >= 3
  /\ lastCheck.verdict.lookups = firstCheck.verdict.lookups
  /\ lastCheck.verdict.ok

\* C6: in a second run whose dictionary has gained the words of the
\* misspellings file the first run wrote, no word is rejected (here: unless
\* the new suggestion list of the word holds a case-fold match).
C6_RoundTripAcceptsAll ==
  (SecondRunChecked /\ rerun = "words" /\ ~lastCheck.verdict.fold)
    => /\ lastCheck.verdict.ok
       /\ records = << >>
       /\ misspellings = 0

(***************************************************************************)
(* Claims about the change filter.                                         *)
(***************************************************************************)
\* The position asked about lies in a range of its file's entry.
InSomeRange ==
  /\ changeQuery.file \in DOMAIN changeFilter.ranges
  /\ \E i \in 1..Len(changeFilter.ranges[changeQuery.file]) :
       LET r == changeFilter.ranges[changeQuery.file][i]
       IN r.start <= changeQuery.line /\ changeQuery.line <= r.end

\* C11 as stated: isInChange is true for every position when the filter is
\* nil or has no file entry, and otherwise true exactly for the positions
\* whose file has an entry with a range holding the position's line.
C11_NilOrEmptyAcceptsAll ==
  changeQuery.kind = "position"
    => changeQuery.result
         = (\/ changeFilter.isNil
            \/ DOMAIN changeFilter.ranges = {}
            \/ InSomeRange)

\* C11 amended: isInChange is true for every position when the filter is
\* nil; for a filter that is not nil, the empty one included, it is true
\* exactly for the positions whose file has an entry with a range holding
\* the position's line.
C11_NilAcceptsAll ==
  changeQuery.kind = "position"
    => changeQuery.result = (changeFilter.isNil \/ InSomeRange)

\* A position on the last line of the second range of its file was asked
\* about, and found in the change.
C11_Witness ==
  /\ changeQuery.kind = "position"
  /\ ~changeFilter.isNil
  /\ changeQuery.file \in DOMAIN changeFilter.ranges
  /\ Len(changeFilter.ranges[changeQuery.file]) = 2
  /\ changeFilter.ranges[changeQuery.file][2].end = changeQuery.line
  /\ changeFilter.ranges[changeQuery.file][1].end < changeQuery.line
  /\ changeQuery.result

(***************************************************************************)
(* Claims about malformed diffs.                                           *)
(***************************************************************************)
\* C12: once a malformed hunk header (no added-side token, no '+' on it, a
\* start or a count that is not a number) has been read, additions has
\* returned an error and no filter: it has not crashed, and it holds no
\* partial filter.
C12_MalformedHunkIsError ==
  (diffPos > 0 /\ diffEntries[diffPos].kind = "bad")
    => (diffState = "error" /\ diffAdditions = EmptyMap)

(***************************************************************************)
(* Claims about a run of the program.                                      *)
(***************************************************************************)
\* The -since reference names a commit range: two dots follow each other.
CommitRange(ref) ==
  \E i \in 1..(Len(ref) - 1) : ref[i] = 46 /\ ref[i + 1] = 46

\* The run ended as a rejected commit range does: invocation error, the
\* message about the range, no git diff, no packages loaded, no fragment
\* come to, nothing on stdout.
RangeRejected ==
  /\ gStatus = invocationError
  /\ gStderr = "cannot use commit range for since argument"
  /\ ~gEvents.gitDiff
  /\ ~gEvents.packagesLoaded
  /\ gChecked = 0
  /\ ~gStdout

LastOutsideWindow ==
  /\ gLast.fragment.kind # "none"
  /\ LET frag == gLast.fragment
         measured == IF frag.kind = "string"
                     THEN literalText(fragmentText(frag))
                     ELSE fragmentText(frag)
     IN unexpectedEntropy(GospelEntropy(gConfig.Filter), measured,
                          frag.kind = "string")

\* C14: with the entropy filter enabled, a fragment (comment, string literal
\* or embedded file) of length min_len_filtered or more whose entropy is
\* outside the window is skipped entirely: no word of it is scanned, it adds
\* no misspelled record and causes no call of noteMisspelling.
C14_OutsideWindowSkipped ==
  LastOutsideWindow
    => (gLast.tokens = 0 /\ gLast.records = 0 /\ gLast.noted = 0)

\* The exit status has the spelling-error bit.
SpellingBit == (gStatus \div spellingError) % 2 = 1

\* The run came to its report, and the report has a rejected-word or an
\* unreachable-URL record in it.
ReportHasRecord == gEvents.reported /\ gRecords > 0

EntriesDue ==
  wNoted \cup (IF wUpdate THEN UNION {DictionaryWords(f) : f \in Opened}
               ELSE {})

\* C15: the file written has as first line the decimal number of the
\* entries that follow; the entries are pairwise distinct, not blank and in
\* ascending byte order; they are the words noted during the run and, with
\* update, the lines after the first of the existing .words files.
C15_WordsFileWellFormed ==
  wState = "written"
    => /\ Len(wOut) >= 1
       /\ wOut[1] = Itoa(Len(wOut) - 1)
       /\ \A i, j \in 2..Len(wOut) : i < j => StringLess(wOut[i], wOut[j])
       /\ \A i \in 2..Len(wOut) : wOut[i] # << >>
       /\ {wOut[i] : i \in 2..Len(wOut)} = EntriesDue

(***************************************************************************)
(* Claims about the report.                                                *)
(***************************************************************************)
\* Suggestions apply to the word of line i, and the dictionary has some.
Suggestible(i) ==
  /\ rLines[i].note = "misspelled"
  /\ rSuggest[rLines[i].word] # << >>

FirstInReport(i) ==
  \A j \in 1..(i - 1) : rLines[j].word # rLines[i].word

FirstInChunk(i) ==
  \A j \in 1..(i - 1) :
    rLines[j].chunk = rLines[i].chunk => rLines[j].word # rLines[i].word

\* C16: a line of the report carries suggestions exactly when suggestions
\* apply to its word, the dictionary has some, and the policy allows them:
\* never for never, at the first line of the word in the report for once,
\* at the first line of the word in its chunk for each, always for always.
\* The lines of unreachable URLs carry none.
C16_SuggestionPolicy ==
  rState = "reported"
    => \A i \in 1..Len(rLines) :
         rLines[i].decorated
           = (/\ Suggestible(i)
              /\ CASE rPolicy = never -> FALSE
                   [] rPolicy = once -> FirstInReport(i)
                   [] rPolicy = each -> FirstInChunk(i)
                   [] OTHER -> TRUE)

\* Under each, a word with suggestions was reported twice in one chunk and
\* again in a later one: it carries them on the first and third lines only.
C16_Witness ==
  /\ rState = "reported"
  /\ rPolicy = each
  /\ \E i, j, k \in 1..Len(rLines) :
       /\ i < j /\ j < k
       /\ rLines[i].word = rLines[j].word /\ rLines[j].word = rLines[k].word
       /\ rLines[i].chunk = rLines[j].chunk
       /\ rLines[j].chunk # rLines[k].chunk
       /\ FirstInReport(i)
       /\ rLines[i].decorated /\ ~rLines[j].decorated /\ rLines[k].decorated

\* The misspelled words of the report in the order of its lines.
Occurrences == occurrencesOf(rChunks, 1, 1)

\* The token a misspelled record was made for: the one with its span.
TokenOf(occ) ==
  LET toks == scanText([pos |-> 0, end |-> 0], occ.m.text, FALSE)
      i == CHOOSE k \in 1..Len(toks) : toks[k].span = occ.w.span
  IN toks[i].token

\* The span of the record covers its token.
SpanCoversToken(occ) ==
  LET tok == TokenOf(occ)
  IN /\ Slice(occ.m.text, occ.w.span.pos, occ.w.span.pos + Len(tok)) = tok
     /\ occ.w.span.pos + Len(tok) <= occ.w.span.end

\* C19 as stated: the span of the record of a rejected token and the text
\* highlighted for it cover the whole token, a suffix 's, 'd, 'ed or 'th
\* and leading and trailing underscores included.
C19_HighlightCoversToken ==
  rState = "reported"
    => \A i \in 1..Len(rShown) :
         Occurrences[i].w.note = "misspelled"
           => /\ SpanCoversToken(Occurrences[i])
              /\ rShown[i].highlighted = TokenOf(Occurrences[i])

\* C19 amended: the span covers the whole token; the word reported and the
\* text highlighted are the token without such a suffix, its underscores
\* kept, and the suffix is printed after it without the decoration.
C19_HighlightCoversStem ==
  rState = "reported"
    => \A i \in 1..Len(rShown) :
         Occurrences[i].w.note = "misspelled"
           => LET tok == TokenOf(Occurrences[i])
              IN /\ SpanCoversToken(Occurrences[i])
                 /\ rLines[i].word = trimCommonSuffix(tok)
                 /\ rShown[i].highlighted = trimCommonSuffix(tok)
                 /\ HasPrefix(rShown[i].highlighted \o rShown[i].trailing, tok)

\* The report shows "a's" with "a" highlighted and "'s" after it, and
\* "_b_" highlighted whole.
C19_Witness ==
  /\ rState = "reported"
  /\ \E i, j \in 1..Len(rShown) :
       /\ Occurrences[i].w.note = "misspelled"
       /\ Occurrences[j].w.note = "misspelled"
       /\ TokenOf(Occurrences[i]) = <<97, 39, 115>>
       /\ rShown[i].highlighted = <<97>>
       /\ HasPrefix(rShown[i].trailing, <<39, 115>>)
       /\ TokenOf(Occurrences[j]) = <<95, 98, 95>>
       /\ rShown[j].highlighted = <<95, 98, 95>>

RECURSIVE Flatten(_)
Flatten(chunks) ==
  IF Len(chunks) = 0 THEN << >> ELSE Head(chunks) \o Flatten(Tail(chunks))

\* m comes next to prev: same file, and it starts at most one line after
\* the line prev ends on.
Touches(m, prev) == m.file = prev.file /\ m.line - prev.endLine <= 1

\* C20: the report holds the misspellings in ascending order of file path
\* and then byte offset; the chunks are non-empty, their concatenation is
\* that ordered list, two consecutive misspellings of a chunk are in the
\* same file with the later starting at most one line after the earlier
\* ends, and the last of a chunk and the first of the next are not.
C20_SortedMaximalChunks ==
  rState = "reported"
    => /\ Len(rSorted) = Len(rMisspellings)
       /\ Elements(rSorted) = Elements(rMisspellings)
       /\ \A i, j \in 1..Len(rSorted) :
            i < j => \/ StringLess(rSorted[i].file, rSorted[j].file)
                     \/ /\ rSorted[i].file = rSorted[j].file
                        /\ rSorted[i].offset <= rSorted[j].offset
       /\ Flatten(rChunks) = rSorted
       /\ \A k \in 1..Len(rChunks) :
            /\ Len(rChunks[k]) > 0
            /\ \A i \in 2..Len(rChunks[k]) :
                 Touches(rChunks[k][i], rChunks[k][i - 1])
            /\ k > 1 => ~Touches(rChunks[k][1],
                                 rChunks[k - 1][Len(rChunks[k - 1])])

\* Two misspellings left in descending order, the later starting on the
\* line after the earlier ends, are reported in one chunk in ascending order.
C20_Witness ==
  /\ rState = "reported"
  /\ Len(rMisspellings) = 2
  /\ rMisspellings[1].offset > rMisspellings[2].offset
  /\ Len(rChunks) = 1
  /\ Len(rChunks[1]) = 2
  /\ rChunks[1][2].line - rChunks[1][1].endLine = 1

(***************************************************************************)
(* Claims about the two tests of the change filter.                        *)
(***************************************************************************)
\* C29: a position isInChange lets through is in a file fileIsInChange lets
\* through, so passing over a file drops no token of the change; and
\* fileIsInChange is true exactly when the filter is nil or the file has an
\* entry.
C29_PositionImpliesFile ==
  /\ (changeQuery.kind = "position" /\ changeQuery.result)
       => fileIsInChange(changeFilter, changeQuery.file)
  /\ changeQuery.kind = "file"
       => changeQuery.result
            = (changeFilter.isNil \/ changeQuery.file \in DOMAIN changeFilter.ranges)

\* A position was found in the change under the nil filter.
C29_Witness ==
  /\ changeQuery.kind = "position"
  /\ changeQuery.result
  /\ changeFilter.isNil
  /\ fileIsInChange(changeFilter, changeQuery.file)

(***************************************************************************)
(* Claims about the decomposition of a word.                               *)
(***************************************************************************)
\* isCorrect(lastCheck.word, false) came to the fragments of the word.
CameToFragments ==
  FirstRunChecked /\ lastCheck.verdict.suggested /\ ~lastCheck.verdict.fold

\* The fragments it was given.
FragmentsOfLast ==
  IF config.CamelSplit THEN camel[lastCheck.word]
  ELSE stringsSplit(lastCheck.word, 95)

\* isCorrect(f, true) accepts f: a heuristic does, or the oracle has.
FragmentAccepted(f) == heuristicsAccept(config, f, TRUE) \/ OracleAccepts(f)

\* The first fragment that is not accepted.
FirstRejected ==
  CHOOSE k \in 1..Len(FragmentsOfLast) :
    /\ ~FragmentAccepted(FragmentsOfLast[k])
    /\ \A j \in 1..(k - 1) : FragmentAccepted(FragmentsOfLast[j])

\* C22: isCorrect goes one level deep: the dictionary is asked about the
\* word and then only about fragments of it, each at most once and in
\* order; the word is accepted exactly when every fragment is; the loop
\* stops at the first rejected fragment, which is the one word noted, and
\* asks about none after it; and a word without split point (camel
\* splitting off, no underscore) that heuristics and oracle reject is
\* rejected as one token.
C22_OneLevelOfFragments ==
  /\ CameToFragments =>
       LET v == lastCheck.verdict
           frags == FragmentsOfLast
       IN /\ v.lookups[1] = lastCheck.word
          /\ Len(v.lookups) <= 1 + Len(frags)
          /\ v.ok = (\A j \in 1..Len(frags) : FragmentAccepted(frags[j]))
          /\ v.ok => v.noted = << >>
          /\ ~v.ok =>
               /\ v.noted = <<frags[FirstRejected]>>
               /\ v.lookups[Len(v.lookups)] = frags[FirstRejected]
               /\ Len(v.lookups) - 1
                    = Cardinality({j \in 1..FirstRejected :
                         ~heuristicsAccept(config, frags[j], TRUE)})
  /\ (/\ FirstRunChecked
      /\ ~config.CamelSplit
      /\ 95 \notin Elements(lastCheck.word)
      /\ ~heuristicsAccept(config, lastCheck.word, FALSE)
      /\ OracleRejects(lastCheck.word))
       => /\ ~lastCheck.verdict.ok
          /\ Len(lastCheck.verdict.noted) = 1

\* A word of three fragments was rejected at its second fragment, after the
\* dictionary accepted the first, and the third was never asked about.
C22_Witness ==
  /\ CameToFragments
  /\ Len(FragmentsOfLast) = 3
  /\ ~lastCheck.verdict.ok
  /\ FirstRejected = 2
  /\ lastCheck.verdict.lookups
       = <<lastCheck.word, FragmentsOfLast[1], FragmentsOfLast[2]>>
  /\ FragmentsOfLast[3] \notin DOMAIN spell

(***************************************************************************)
(* Claims about the hex heuristics.                                        *)
(***************************************************************************)
\* One of 0-9, a-f, A-F.
HexDigit(b) == b \in (48..57) \cup (97..102) \cup (65..70)

\* C23: the naked-hex heuristic accepts a word exactly when the minimum is
\* not 0, the word has at least that many bytes and every byte of it is one
\* of 0-9, a-f, A-F; a word with any other byte, a control byte 0x10-0x19
\* for one, is not accepted.
C23_NakedHexOnlyHexDigits ==
  fnCall.fn = "isNakedHex"
    => fnCall.result
         = (/\ fnInput.minLen # 0
            /\ Len(fnInput.word) >= fnInput.minLen
            /\ \A i \in 1..Len(fnInput.word) : HexDigit(fnInput.word[i]))

\* The forms of a rune literal: \xHH, \uHHHH, \UHHHHHHHH, and a backslash
\* with one to three octal digits.
HexForm(word, letter, digits) ==
  /\ Len(word) = 2 + digits
  /\ word[1] = 92
  /\ word[2] = letter
  /\ \A i \in 3..Len(word) : HexDigit(word[i])

OctalForm(word) ==
  /\ Len(word) \in 2..4
  /\ word[1] = 92
  /\ \A i \in 2..Len(word) : word[i] \in 48..55

\* C24: the rune-literal heuristic accepts exactly the words of the form
\* \xHH, \uHHHH, \UHHHHHHHH and a backslash followed by one to three octal
\* digits (\7, \12, \101), and no other word.
C24_RuneLiteralForms ==
  fnCall.fn = "isHexRune"
    => fnCall.result
         = (\/ HexForm(fnInput.word, 120, 2)
            \/ HexForm(fnInput.word, 117, 4)
            \/ HexForm(fnInput.word, 85, 8)
            \/ OctalForm(fnInput.word))

(***************************************************************************)
(* Claims about the entropy of a text.                                     *)
(***************************************************************************)
\* The bytes of the text that are not printable.
NonPrintable(txt) == {i \in 1..Len(txt) : ~IsPrint(txt[i])}

\* C25: with the printable option the non-printable bytes of the text are
\* one symbol class, whose count is one term of the sum, so the classes are
\* the printable byte values and that one class and their counts add up to
\* the length of the text; without the option every byte value is a class.
C25_NonPrintableOneClass ==
  fnCall.fn = "entropy" =>
    LET counts == fnCall.result
        txt == fnInput.text
        bytes == {txt[i] : i \in 1..Len(txt)}
        printable == {x \in bytes : IsPrint(x)}
    IN /\ countSum(txt, DOMAIN counts) = Len(txt)
       /\ fnInput.print =>
            Cardinality(DOMAIN counts)
              = Cardinality(printable)
                  + (IF NonPrintable(txt) # {} THEN 1 ELSE 0)
       /\ ~fnInput.print => DOMAIN counts = bytes

(***************************************************************************)
(* Claims about the text given to the tokenizer.                           *)
(***************************************************************************)
\* check was called on the fragment.
FragmentChecked == fnCall.fn \in {"Visit", "comment"}

DoubleQuotedLiteral == fnInput.kind = "string" /\ fnInput.value[1] = 34

\* The tokenizer got the fragment as it is written in the source, and ran
\* in non-double-quoted mode.
TokenizedAsWritten == fnCall.text = fnInput.value /\ ~fnCall.doubleQuoted

\* C26 as stated: for a double-quoted literal the tokenizer gets the
\* unquoted text and runs in double-quoted mode; for a raw literal and a
\* comment it gets the text with the escapes in it and runs in
\* non-double-quoted mode.
C26_UnquotedInDoubleQuotedMode ==
  FragmentChecked =>
    IF DoubleQuotedLiteral
    THEN fnCall.text = literalText(fnInput.value) /\ fnCall.doubleQuoted
    ELSE TokenizedAsWritten

\* C26 amended: for every fragment, a double-quoted literal included, the
\* tokenizer gets the text as it is written in the source (a literal with
\* its quotes and its escapes) and runs in non-double-quoted mode; the
\* unquoted text of a double-quoted literal is only what the entropy filter
\* measures, with the printable option.
C26_AlwaysAsWritten ==
  FragmentChecked =>
    /\ TokenizedAsWritten
    /\ fnCall.fn = "Visit" =>
         /\ fnCall.print = DoubleQuotedLiteral
         /\ fnCall.measured = IF DoubleQuotedLiteral
                              THEN unquoteBody(Slice(fnInput.value, 1,
                                                     Len(fnInput.value) - 1))
                              ELSE fnInput.value

\* Visit came to the literal "\na": it measured a newline and a, and the
\* tokenizer got the literal as written, split at the escape and found the
\* word a after it.
C26_Witness ==
  /\ fnCall.fn = "Visit"
  /\ fnInput.value = <<34, 92, 110, 97, 34>>
  /\ fnCall.measured = <<10, 97>>
  /\ fnCall.text = fnInput.value
  /\ ~fnCall.doubleQuoted
  /\ fnCall.tokens = <<[token |-> <<97>>, span |-> [pos |-> 3, end |-> 5]]>>

(***************************************************************************)
(* Claims about the cutting of the text into buffers.                      *)
(***************************************************************************)
\* The tokens of a Scanner whose first read fills its buffer with the whole
\* of data: ScanWords is called on what is left of it, and at EOF when it
\* asks for more.
RECURSIVE oneBufferTokens(_, _, _, _)
oneBufferTokens(w, quoted, data, eof) ==
  LET ret == ScanWords(w, quoted, data, eof)
  IN IF ret.hasToken
     THEN <<[token |-> ret.token, pos |-> ret.current.pos,
             end |-> ret.current.end]>>
            \o oneBufferTokens(ret.current, quoted,
                               SliceFrom(data, ret.advance), eof)
     ELSE IF ~eof
     THEN oneBufferTokens(ret.current, quoted, SliceFrom(data, ret.advance),
                          TRUE)
     ELSE << >>

\* C28: the tokens and spans of a text do not depend on how the reader cuts
\* it into buffers: a finished scan has the tokens and spans of the scan
\* that was given the text in one buffer.
C28_CutsDoNotMatter ==
  scanState = "done"
    => tokens = oneBufferTokens([pos |-> 0, end |-> 0], doubleQuoted, text,
                                FALSE)


\* The number of tabs a line starts with.
LeadingTabs(l) ==
  IF \E i \in 1..Len(l) : l[i] # 9
  THEN (CHOOSE i \in 1..Len(l) : l[i] # 9 /\ \A j \in 1..(i - 1) : l[j] = 9) - 1
  ELSE Len(l)

\* The non-empty lines of a text, in order.
NonEmptyLines(s) == SelectSeq(stringsSplit(s, 10), LAMBDA l : l # << >>)

\* The printed lines of an output of adjustIndents: every one ends with a
\* newline.
PrintedLines(out) ==
  LET ls == stringsSplit(out, 10) IN Slice(ls, 0, Len(ls) - 1)

\* The tabs of the closing line of a text.
ClosingTabs(s) == LeadingTabs(SliceFrom(s, LastIndexByte(s, 10) + 1))

\* C30: adjustIndents never fails, and its output is the non-empty lines of
\* the text in order, each after one tab: the first as it is, and every
\* other without some of its leading tabs, at most as many as the closing
\* line of the text starts with.
C30_OnlyTabsRemoved ==
  fnCall.fn = "adjustIndents" =>
    /\ ~fnCall.panic
    /\ LET ins == NonEmptyLines(fnInput)
           outs == PrintedLines(fnCall.out)
       IN /\ Len(outs) = Len(ins)
          /\ \A j \in 1..Len(ins) :
               \E k \in 0..LeadingTabs(ins[j]) :
                 /\ k <= ClosingTabs(fnInput)
                 /\ (j = 1 /\ stringsSplit(fnInput, 10)[1] # << >>) => k = 0
                 /\ outs[j] = <<9>> \o SliceFrom(ins[j], k)


\* The records of the misspelling of the text that check was called on.
RecordsMade == fnCall.fn \in {"check", "Show"} /\ fnCall.words # << >>

\* The records are in the order of their spans and none overlaps another
\* or ends after the text.
SpansAscend(ws, n) ==
  /\ \A i \in 1..Len(ws) :
       0 <= ws[i].span.pos /\ ws[i].span.pos <= ws[i].span.end
         /\ ws[i].span.end <= n
  /\ \A i \in 2..Len(ws) : ws[i - 1].span.end <= ws[i].span.pos

\* C27: under every configuration the records of a misspelling are in
\* ascending span order, do not overlap and do not end after the text, and
\* Show never slices the text with a start beyond its end.
C27_SpansAscendNoPanic ==
  /\ RecordsMade => SpansAscend(fnCall.words, Len(fnInput.text))
  /\ fnCall.fn = "Show" => ~fnCall.panic


\* The i-th line of the group has a rejected word: check made records for
\* it.
HasRejected(i) ==
  /\ i \in 1..Len(fnInput.lines)
  /\ lineWords(fnInput.filter, GroupOracle, fnInput.lines, i) # << >>

\* The entries of the i-th line: those with words, and those without.
EntriesOf(i, context) ==
  {k \in 1..Len(fnCall.entries) :
     fnCall.entries[k].line = i /\ (fnCall.entries[k].words = << >>) = context}

ShownAsContext(i) ==
  {k \in 1..Len(fnCall.shown) :
     fnCall.shown[k].line = i /\ fnCall.shown[k].context}

\* C21: a line of the group without a rejected word has a context entry
\* exactly when the line before it or the line after it has a rejected
\* word, and such a line is printed once as context; a line with a
\* rejected word has exactly one entry with words.
C21_ContextNextToRejected ==
  fnCall.fn \in {"comments", "report"} =>
    \A i \in 1..Len(fnInput.lines) :
      IF HasRejected(i)
      THEN Cardinality(EntriesOf(i, FALSE)) = 1
      ELSE /\ (EntriesOf(i, TRUE) # {})
                <=> (HasRejected(i - 1) \/ HasRejected(i + 1))
           /\ (fnCall.fn = "report"
                 /\ (HasRejected(i - 1) \/ HasRejected(i + 1)))
                => Cardinality(ShownAsContext(i)) = 1

\* C21 without the printing: which lines have which entries.
C21_EntriesOnly ==
  fnCall.fn \in {"comments", "report"} =>
    \A i \in 1..Len(fnInput.lines) :
      IF HasRejected(i)
      THEN Cardinality(EntriesOf(i, FALSE)) = 1 /\ EntriesOf(i, TRUE) = {}
      ELSE (EntriesOf(i, TRUE) # {})
             <=> (HasRejected(i - 1) \/ HasRejected(i + 1))

=============================================================================
